---- MODULE Spec2Model ----
(***************************************************************************)
(* Pod-to-container reconciliation of the docker runtime manager           *)
(* (pkg/kubelet/dockertools/manager.go): the change planner                *)
(* computePodContainerChanges, the driver SyncPod, the whole-pod killer    *)
(* killPodWithSyncResult and the single-container kill killContainer.      *)
(***************************************************************************)
EXTENDS Integers, Sequences, FiniteSets, TLC

(***************************************************************************)
(* Bounds of the model.                                                    *)
(***************************************************************************)
\* Longest observed PodStatus.ContainerStatuses list the planner is run on.
MaxStatuses == 2
\* Daemon, plugin and puller calls of one run that do not plainly succeed.
MaxFaults == 2

\* The longest grace period a pod asks for, in seconds.
MaxGrace == 4

(***************************************************************************)
(* Program constants.                                                      *)
(***************************************************************************)
PodInfraContainerName == "POD"
namespaceModeHost == "host"
minimumGracePeriodInSeconds == 2

RestartPolicies == {"Always", "OnFailure", "Never"}

\* The zero value of a map (a nil or freshly made Go map).
EmptyMap == [x \in {} |-> 0]

VARIABLES
    entry,        \* the call being run: "SyncPod", "KillPod" or "Plan"
    pod,          \* the desired pod: restart policy, host network, containers
    podKnown,     \* FALSE when KillPod is handed a nil pod
    podStatus,    \* the observed PodStatus.ContainerStatuses, newest first
    liveness,     \* livenessManager results, by container id
    infraInspect, \* what client.InspectContainer answers for the infra container
    plan,         \* the podContainerChangesSpec computed for this sync
    pc,           \* position of the caller
    running,      \* ids of the containers running in the daemon
    nextId,       \* the id the daemon gives the next container it creates
    log,          \* the daemon and plugin calls made so far, in order
    result,       \* the PodSyncResult: its SyncResults, in order
    reasonCache,  \* dm.reasonCache for this pod, by container name
    tasks,        \* killPodWithSyncResult: each goroutine's position, by id
    containerResults, \* killPodWithSyncResult: the results channel
    networkContainer, \* killPodWithSyncResult: id of the infra container seen
    killQueue,    \* SyncPod: running containers still to look at in the kill loop
    toStartLeft,  \* SyncPod: indices of ContainersToStart not yet ranged over
    podInfraContainerID, \* SyncPod: the infra container workloads attach to
    faults,       \* daemon, plugin and puller calls that did not plainly succeed
    kc,           \* killContainer: its arguments, locals and clock
    firstCall,    \* the planner's latest call: what it read and returned
    rc,           \* dm.reasonCache as it is built: the lock, the LRU list, its users
    conv          \* a status call (inspectContainer, the API conversion): input and result

inputVars == <<entry, pod, podKnown, podStatus, liveness, infraInspect>>

runVars == <<running, nextId, log, result, reasonCache, tasks,
             containerResults, networkContainer, killQueue, toStartLeft,
             podInfraContainerID, faults>>

vars == <<inputVars, plan, pc, runVars, conv, rc, kc, firstCall>>

\* A *int64: nil, or pointing at v.
NilGrace == [isNil |-> TRUE, v |-> 0]

GraceOf(v) == [isNil |-> FALSE, v |-> v]

\* kc while no killContainer is being stepped through.
NoKill ==
    [pc |-> "idle", podKnown |-> FALSE, containerKnown |-> FALSE,
     preStop |-> FALSE, deletionGrace |-> NilGrace,
     terminationGrace |-> NilGrace, hasRef |-> FALSE, hadRef |-> FALSE,
     gracePeriod |-> 0,
     deadline |-> 0, now |-> 0, hook |-> "none", selected |-> "none",
     stopAt |-> 0, stopGrace |-> 0, hookAtStop |-> "none",
     stopOutcome |-> "none", events |-> 0, err |-> ""]

\* conv while no status call is looked at.
NoConversion == [fn |-> "none"]

\* rc while the reason cache is looked at as a map only (reasonCache).
NoCache == [cache |-> <<>>]

(***************************************************************************)
(* Helpers of the container package the manager calls.                     *)
(***************************************************************************)
\* kubecontainer.HashContainer: the fingerprint of a container spec. The
\* spec's content is abstracted to a small number; the checksum (adler32)
\* of a non-empty dump is never 0.
HashContainer(content) == content + 1

\* PodStatus.FindContainerStatusByName: index of the first status of that
\* name (0 for nil).
FindContainerStatusByName(statuses, name) ==
    IF \E i \in 1..Len(statuses) : statuses[i].name = name
    THEN CHOOSE i \in 1..Len(statuses) :
            /\ statuses[i].name = name
            /\ \A j \in 1..(i - 1) : statuses[j].name # name
    ELSE 0

\* kubecontainer.ShouldContainerBeRestarted.
ShouldContainerBeRestarted(container, p, statuses) ==
    LET i == FindContainerStatusByName(statuses, container.name) IN
    IF i = 0 THEN TRUE
    ELSE IF statuses[i].state = "Running" THEN FALSE
    ELSE IF statuses[i].state = "Unknown" THEN TRUE
    ELSE IF p.restartPolicy = "Never" THEN FALSE
    ELSE IF p.restartPolicy = "OnFailure" /\ statuses[i].exitCode = 0 THEN FALSE
    ELSE TRUE

usesHostNetwork(p) == p.hostNetwork

(***************************************************************************)
(* podInfraContainerChanged.                                               *)
(***************************************************************************)
\* The container the infra container is expected to be: its ports are the
\* ports of all containers of the pod, none on host network.
expectedPodInfraContainer(p) == IF usesHostNetwork(p) THEN 0 ELSE p.ports

\* The comparison of the observed infra hash with the expected one.
infraHashChanged(hash, expectedHash) == hash # expectedHash

\* inspect: "err" | "nilHostConfig" | "host" | "other" (HostConfig.NetworkMode).
C9_inspectFailedMutant(inspect) == FALSE

\* inspectResult, err := dm.client.InspectContainer(...); if err != nil
inspectFailed(inspect) == inspect = "err"

podInfraContainerChanged(p, status, inspect) ==
    IF inspectFailed(inspect) THEN [err |-> TRUE, changed |-> FALSE]
    ELSE
      LET networkMode == IF inspect = "host" THEN namespaceModeHost ELSE "" IN
      IF usesHostNetwork(p) /\ networkMode # namespaceModeHost
      THEN [err |-> FALSE, changed |-> TRUE]
      ELSE [err |-> FALSE,
            changed |-> infraHashChanged(status.hash,
                            HashContainer(expectedPodInfraContainer(p)))]

(***************************************************************************)
(* computePodContainerChanges.                                             *)
(***************************************************************************)
C24_containerChangedMutant(hash, expectedHash) == hash # 0

\* containerChanged := hash != 0 && hash != expectedHash
containerChanged(hash, expectedHash) == hash # 0 /\ hash # expectedHash

\* The test "if createPodInfraContainer" of the loop: a running container is
\* looked at no further when the infra container is being created.
C6_infraBeingRecreatedMutant(create) == FALSE

infraBeingRecreated(create) == create

\* The entries the infra branch leaves in containersToKeep.
infraKeepEntries(create, infraId) ==
    IF create THEN EmptyMap ELSE [id \in {infraId} |-> -1]

C33_restartsWithInfraMutant(p) == p.restartPolicy = "Always"

\* if pod.Spec.RestartPolicy != api.RestartPolicyNever, of a container that
\* runs while the infra container is created.
restartsWithInfra(p) == p.restartPolicy # "Never"

\* One round of the loop over pod.Spec.Containers: what happens to the
\* container at index. "start" with its reason, "keep" with the id, or "none".
containerDecision(p, statuses, live, create, index) ==
    LET container == p.containers[index]
        si == FindContainerStatusByName(statuses, container.name)
    IN
    IF si = 0 \/ statuses[si].state # "Running"
    THEN IF ShouldContainerBeRestarted(container, p, statuses)
         THEN [do |-> "start", reason |-> "dead", id |-> 0]
         ELSE [do |-> "none", reason |-> "", id |-> 0]
    ELSE IF infraBeingRecreated(create)
    THEN IF restartsWithInfra(p)
         THEN [do |-> "start", reason |-> "infra", id |-> 0]
         ELSE [do |-> "none", reason |-> "", id |-> 0]
    ELSE IF containerChanged(statuses[si].hash, HashContainer(container.content))
    THEN [do |-> "start", reason |-> "hash", id |-> 0]
    ELSE IF live[statuses[si].id] \in {"none", "Success"}
    THEN [do |-> "keep", reason |-> "", id |-> statuses[si].id]
    ELSE IF p.restartPolicy # "Never"
    THEN [do |-> "start", reason |-> "unhealthy", id |-> 0]
    ELSE [do |-> "none", reason |-> "", id |-> 0]

C7_lonelyInfraMutant(create, toStart, toKeep) ==
    ~create /\ Cardinality(DOMAIN toKeep) = 1

\* "If Infra container is the last running one, we don't want to keep it."
lonelyInfra(create, toStart, toKeep) ==
    ~create /\ Cardinality(DOMAIN toStart) = 0 /\ Cardinality(DOMAIN toKeep) = 1

computePodContainerChanges(p, statuses, live, inspect) ==
    LET pi == FindContainerStatusByName(statuses, PodInfraContainerName)
        infraRunning == pi # 0 /\ statuses[pi].state = "Running"
        chg == IF infraRunning
               THEN podInfraContainerChanged(p, statuses[pi], inspect)
               ELSE [err |-> FALSE, changed |-> FALSE]
        create == ~infraRunning \/ chg.changed
        infraId == IF create THEN 0 ELSE statuses[pi].id
        dec == [i \in 1..Len(p.containers) |->
                    containerDecision(p, statuses, live, create, i)]
        starts == {i \in 1..Len(p.containers) : dec[i].do = "start"}
        keeps == {i \in 1..Len(p.containers) : dec[i].do = "keep"}
        toStart == [i \in starts |-> dec[i].reason]
        seed == infraKeepEntries(create, infraId)
        \* the loop writes containersToKeep[containerID] = index in order:
        \* the last index written for an id stays
        toKeep == [id \in (DOMAIN seed) \cup {dec[i].id : i \in keeps} |->
                     IF \E i \in keeps : dec[i].id = id
                     THEN CHOOSE i \in keeps :
                            /\ dec[i].id = id
                            /\ \A j \in keeps : dec[j].id = id => j <= i
                     ELSE seed[id]]
    IN
    IF chg.err
    THEN [err |-> TRUE, StartInfraContainer |-> FALSE, InfraChanged |-> FALSE,
          InfraContainerId |-> 0, ContainersToStart |-> EmptyMap,
          ContainersToKeep |-> EmptyMap]
    ELSE [err |-> FALSE, StartInfraContainer |-> create,
          InfraChanged |-> chg.changed, InfraContainerId |-> infraId,
          ContainersToStart |-> toStart,
          ContainersToKeep |-> IF lonelyInfra(create, toStart, toKeep)
                               THEN EmptyMap ELSE toKeep]

NoPlan == [err |-> FALSE, StartInfraContainer |-> FALSE, InfraChanged |-> FALSE,
           InfraContainerId |-> 0, ContainersToStart |-> EmptyMap,
           ContainersToKeep |-> EmptyMap]

\* firstCall before the planner was called.
NoCall == [plan |-> NoPlan, liveness |-> EmptyMap, inspect |-> ""]

(***************************************************************************)
(* The inputs of the planner.                                              *)
(***************************************************************************)
\* A container of the pod spec. c1 asks for a non-root check and declares a
\* post-start hook.
Container(name, content) ==
    [name |-> name, content |-> content,
     runAsNonRoot |-> name = "c1", postStart |-> name = "c1"]

\* The containers of the pod spec: distinct names (API validation), each
\* with the content its hash is computed from.
SpecContainers ==
    { <<Container("c1", 0)>>, <<Container("c1", 0), Container("c2", 1)>> }

Pods ==
    [restartPolicy : RestartPolicies, hostNetwork : BOOLEAN, ports : {0, 1},
     containers : SpecContainers]

ContainerNames == {PodInfraContainerName, "c1", "c2"}

\* What a status can look like, but for its id: a running container with the
\* hash its name carries (0: a legacy name without hash), an exited one with
\* its exit code, or one whose daemon state says neither.
StatusShapes ==
    [name : ContainerNames, state : {"Running"}, hash : {0, 1, 2}, exitCode : {0}]
    \cup [name : ContainerNames, state : {"Exited"}, hash : {1}, exitCode : {0, 1}]
    \cup [name : ContainerNames, state : {"Unknown"}, hash : {1}, exitCode : {0}]

\* finished: FinishedAt is not the zero time.
WithId(shape, id) ==
    [name |-> shape.name, id |-> id, state |-> shape.state,
     hash |-> shape.hash, exitCode |-> shape.exitCode,
     finished |-> shape.state = "Exited", restartCount |-> 0]

\* Observed status lists of length n; the daemon's ids are unique.
StatusLists(n) ==
    {[i \in 1..n |-> WithId(f[i], i)] : f \in [1..n -> StatusShapes]}

\* Liveness results exist only for running workload containers.
LivenessResults(statuses) ==
    {l \in [1..Len(statuses) -> {"none", "Success", "Failure"}] :
        \A i \in 1..Len(statuses) :
            (statuses[i].state # "Running"
             \/ statuses[i].name = PodInfraContainerName) => l[i] = "none"}

\* The daemon is asked about the infra container only when it is running.
InspectAnswers(statuses) ==
    LET pi == FindContainerStatusByName(statuses, PodInfraContainerName) IN
    IF pi # 0 /\ statuses[pi].state = "Running"
    THEN {"err", "nilHostConfig", "host", "other"}
    ELSE {"other"}

(***************************************************************************)
(* SpecPlan: the planner run once on every input within the bounds.        *)
(***************************************************************************)
InitPlan ==
    /\ pod \in Pods
    /\ \E n \in 0..MaxStatuses : podStatus \in StatusLists(n)
    /\ liveness \in LivenessResults(podStatus)
    /\ infraInspect \in InspectAnswers(podStatus)
    /\ plan = NoPlan
    /\ pc = "plan"
    /\ entry = "Plan"
    /\ podKnown = TRUE
    /\ running = {}
    /\ nextId = 1
    /\ log = <<>>
    /\ result = <<>>
    /\ reasonCache = EmptyMap
    /\ tasks = EmptyMap
    /\ containerResults = <<>>
    /\ networkContainer = 0
    /\ killQueue = <<>>
    /\ toStartLeft = {}
    /\ podInfraContainerID = 0
    /\ faults = 0
    /\ kc = NoKill
    /\ firstCall = NoCall
    /\ conv = NoConversion
    /\ rc = NoCache

ComputeChanges ==
    /\ pc = "plan"
    /\ plan' = computePodContainerChanges(pod, podStatus, liveness, infraInspect)
    /\ firstCall' = [plan |-> plan', liveness |-> liveness, inspect |-> infraInspect]
    /\ pc' = "planned"
    /\ UNCHANGED <<conv, rc, kc, inputVars, runVars>>

NextPlan == ComputeChanges

SpecPlan == InitPlan /\ [][NextPlan]_vars

(***************************************************************************)
(* Calls, results and the reason cache.                                    *)
(***************************************************************************)
\* One daemon or plugin call (or its return) as the log records it: by is
\* the function that made it, ref the infra container a started container
\* attaches to (netMode = ipcMode = "container:<ref>"; 0 for none).
Ev(op, by, name, id, ref) ==
    [op |-> op, by |-> by, name |-> name, id |-> id, ref |-> ref]

\* kubecontainer.NewSyncResult, with the error Fail gave it ("" for none).
SyncResult(action, target, error) ==
    [action |-> action, target |-> target, error |-> error]

NoEntry == [found |-> FALSE, reason |-> "", message |-> ""]

\* reasonInfoCache.Add
ReasonCacheAdd(cache, name, reason, message) ==
    [cache EXCEPT ![name] = [found |-> TRUE, reason |-> reason, message |-> message]]

\* reasonInfoCache.Remove
ReasonCacheRemove(cache, name) == [cache EXCEPT ![name] = NoEntry]

C21_updateReasonCacheMutant(cache, name, briefError, isErr, errString) == cache

\* updateReasonCache: nothing is cached without a brief error and an error.
updateReasonCache(cache, name, briefError, isErr, errString) ==
    IF briefError = "" \/ ~isErr THEN cache
    ELSE ReasonCacheAdd(cache, name, briefError, errString)

C10_clearReasonCacheMutant(cache, name) == cache

clearReasonCache(cache, name) == ReasonCacheRemove(cache, name)

\* PodSyncResult.Error: some SyncResult, or the sync itself, failed.
HasError(results) == \E i \in 1..Len(results) : results[i].error # ""

\* Whether one more call may go wrong after f of them did.
CanFaultAt(f) == f < MaxFaults

CanFault == CanFaultAt(faults)

(***************************************************************************)
(* KillContainerInPod and killContainer, as the callers of the reconciler  *)
(* see them: an inspect when the container spec or the pod is missing,     *)
(* then the daemon's Stop.                                                 *)
(***************************************************************************)
\* case container == nil || pod == nil
NeedsInspect(specKnown) == ~specKnown \/ ~podKnown

\* How a kill can go: the labels' inspect fails (no Stop is issued), or Stop
\* is issued and succeeds, finds the container not running, or fails.
KillOutcomesAt(specKnown, f) ==
    {"ok"} \cup (IF CanFaultAt(f) THEN {"notRunning", "stopErr"} ELSE {})
           \cup (IF CanFaultAt(f) /\ NeedsInspect(specKnown)
                 THEN {"inspectErr"} ELSE {})

KillOutcomes(specKnown) == KillOutcomesAt(specKnown, faults)

StopOutcomes == KillOutcomes(TRUE) \ {"inspectErr"}

\* err of KillContainerInPod: "container not running" is no error.
KillFailed(how) == how \in {"stopErr", "inspectErr"}

KillEvents(by, name, id, how) ==
    IF how = "inspectErr" THEN <<Ev("KillReturn", by, name, id, 0)>>
    ELSE <<Ev("StopCall", by, name, id, 0), Ev("KillReturn", by, name, id, 0)>>

RunningAfterKill(run, id, how) ==
    IF how \in {"ok", "notRunning"} THEN run \ {id} ELSE run

FaultCost(how) == IF how = "ok" THEN 0 ELSE 1

\* The container spec of the pod with that name, if the pod is known.
SpecKnownFor(name) ==
    podKnown /\ \E i \in 1..Len(pod.containers) : pod.containers[i].name = name

(***************************************************************************)
(* killPodWithSyncResult.                                                  *)
(***************************************************************************)
\* kubecontainer.ConvertPodStatusToRunningPod: the running containers.
RunningPod(statuses) ==
    SelectSeq(statuses, LAMBDA st : st.state = "Running")

RunningIds(statuses) ==
    {statuses[i].id : i \in {j \in 1..Len(statuses) : statuses[j].state = "Running"}}

StatusById(id) == podStatus[CHOOSE i \in 1..Len(podStatus) : podStatus[i].id = id]

\* wg.Add(len(runningPod.Containers)); one goroutine each.
StartKillTasks == [id \in RunningIds(podStatus) |-> "todo"]

C39_resultCapacityMutant(t) == 0

\* make(chan *kubecontainer.SyncResult, len(runningPod.Containers))
resultCapacity(t) == Cardinality(DOMAIN t)

\* containerResults <- killContainerResult goes through when the buffer has
\* room; the goroutine blocks otherwise.
canSend(t, results) == Len(results) < resultCapacity(t)

C1_allTasksDoneMutant(t) == TRUE

\* wg.Wait()
allTasksDone(t) == \A id \in DOMAIN t : t[id] = "done"

C36_AfterKillPhaseMutant == IF plan.StartInfraContainer THEN "infra" ELSE "start"

\* The step of SyncPod after its kill phase.
AfterKillPhase ==
    IF plan.StartInfraContainer /\ DOMAIN plan.ContainersToStart # {}
    THEN "infra" ELSE "start"

C15_AfterKillPodMutant(res) ==
    IF entry = "KillPod" THEN "done" ELSE AfterKillPhase

\* Where the caller of killPodWithSyncResult goes with its result.
AfterKillPod(res) ==
    IF entry = "KillPod" \/ HasError(res) THEN "done" ELSE AfterKillPhase

\* The goroutine of the infra container only remembers it.
KillTaskInfra(id) ==
    /\ pc = "killPod"
    /\ id \in DOMAIN tasks /\ tasks[id] = "todo"
    /\ StatusById(id).name = PodInfraContainerName
    /\ networkContainer' = id
    /\ tasks' = [tasks EXCEPT ![id] = "done"]
    /\ UNCHANGED <<conv, rc, kc, firstCall, inputVars, plan, pc, running, nextId, log, result,
                   reasonCache, containerResults, killQueue, toStartLeft,
                   podInfraContainerID, faults>>

\* A workload goroutine enters KillContainerInPod: the inspect for the labels
\* fails and the kill returns, or Stop is issued.
KillTaskCall(id) ==
    /\ pc = "killPod"
    /\ id \in DOMAIN tasks /\ tasks[id] = "todo"
    /\ StatusById(id).name # PodInfraContainerName
    /\ LET name == StatusById(id).name IN
       \/ /\ "inspectErr" \in KillOutcomes(SpecKnownFor(name))
          /\ canSend(tasks, containerResults)
          /\ log' = log \o KillEvents("killPod", name, id, "inspectErr")
          /\ containerResults' = Append(containerResults,
                                   SyncResult("KillContainer", name, "KillContainerError"))
          /\ tasks' = [tasks EXCEPT ![id] = "done"]
          /\ faults' = faults + 1
       \/ /\ log' = Append(log, Ev("StopCall", "killPod", name, id, 0))
          /\ tasks' = [tasks EXCEPT ![id] = "called"]
          /\ UNCHANGED <<containerResults, faults>>
    /\ UNCHANGED <<conv, rc, kc, firstCall, inputVars, plan, pc, running, nextId, result,
                   reasonCache, networkContainer, killQueue, toStartLeft,
                   podInfraContainerID>>

\* The daemon's Stop returns to a workload goroutine, which sends its result.
KillTaskReturn(id) ==
    /\ pc = "killPod"
    /\ id \in DOMAIN tasks /\ tasks[id] = "called"
    /\ canSend(tasks, containerResults)
    /\ \E how \in StopOutcomes :
         LET name == StatusById(id).name IN
         /\ log' = Append(log, Ev("KillReturn", "killPod", name, id, 0))
         /\ running' = RunningAfterKill(running, id, how)
         /\ containerResults' = Append(containerResults,
               SyncResult("KillContainer", name,
                          IF KillFailed(how) THEN "KillContainerError" ELSE ""))
         /\ faults' = faults + FaultCost(how)
    /\ tasks' = [tasks EXCEPT ![id] = "done"]
    /\ UNCHANGED <<conv, rc, kc, firstCall, inputVars, plan, pc, nextId, result, reasonCache,
                   networkContainer, killQueue, toStartLeft, podInfraContainerID>>

\* wg.Wait returns, the channel is drained, and the infra container seen, if
\* any, is inspected for its network mode.
KillPodJoin ==
    /\ pc = "killPod"
    /\ allTasksDone(tasks)
    /\ LET res == result \o containerResults IN
       /\ result' = res
       /\ containerResults' = <<>>
       /\ IF networkContainer = 0
          THEN pc' = AfterKillPod(res) /\ UNCHANGED faults
          ELSE \/ /\ infraInspect = "err" \/ CanFault
                  /\ faults' = faults + (IF infraInspect = "err" THEN 0 ELSE 1)
                  /\ pc' = AfterKillPod(res)
               \/ /\ infraInspect # "err"
                  /\ pc' = IF infraInspect \in {"nilHostConfig", namespaceModeHost}
                           THEN "killInfra" ELSE "teardown"
                  /\ UNCHANGED faults
    /\ UNCHANGED <<conv, rc, kc, firstCall, inputVars, plan, running, nextId, log, reasonCache, tasks,
                   networkContainer, killQueue, toStartLeft, podInfraContainerID>>
\* networkPlugin.TearDownPod for the infra container seen.
TearDownPod ==
    /\ pc = "teardown"
    /\ \E ok \in {TRUE} \cup (IF CanFault THEN {FALSE} ELSE {}) :
         /\ log' = log \o <<Ev("TearDownPod", "killPod", PodInfraContainerName,
                               networkContainer, 0),
                            Ev("TearDownPodReturn", "killPod", PodInfraContainerName,
                               networkContainer, 0)>>
         /\ result' = Append(result, SyncResult("TeardownNetwork", "pod",
                                IF ok THEN "" ELSE "TeardownNetworkError"))
         /\ faults' = faults + (IF ok THEN 0 ELSE 1)
    /\ pc' = "killInfra"
    /\ UNCHANGED <<conv, rc, kc, firstCall, inputVars, plan, running, nextId, reasonCache, tasks,
                   containerResults, networkContainer, killQueue, toStartLeft,
                   podInfraContainerID>>

\* KillContainerInPod(networkContainer.ID, networkSpec, pod, ...), last.
KillInfra ==
    /\ pc = "killInfra"
    /\ \E how \in KillOutcomes(SpecKnownFor(PodInfraContainerName)) :
         LET res == Append(result, SyncResult("KillContainer", PodInfraContainerName,
                             IF KillFailed(how) THEN "KillContainerError" ELSE ""))
         IN
         /\ log' = log \o KillEvents("killPod", PodInfraContainerName,
                                     networkContainer, how)
         /\ running' = RunningAfterKill(running, networkContainer, how)
         /\ result' = res
         /\ faults' = faults + FaultCost(how)
         /\ pc' = AfterKillPod(res)
    /\ UNCHANGED <<conv, rc, kc, firstCall, inputVars, plan, nextId, reasonCache, tasks, containerResults,
                   networkContainer, killQueue, toStartLeft, podInfraContainerID>>

(***************************************************************************)
(* SyncPod.                                                                *)
(***************************************************************************)
C23_killWholePodMutant(changes) == changes.StartInfraContainer

\* StartInfraContainer || (len(ContainersToKeep) == 0 && len(ContainersToStart) == 0)
killWholePod(changes) ==
    \/ changes.StartInfraContainer
    \/ (DOMAIN changes.ContainersToKeep = {} /\ DOMAIN changes.ContainersToStart = {})

\* kubecontainer.PodStatus.GetRunningContainerStatuses
GetRunningContainerStatuses(statuses) == RunningPod(statuses)

\* The plan is in: SyncPod fails on a planner error, kills the whole pod, or
\* goes through the running containers for the unwanted ones.
SyncPodBranch ==
    /\ pc = "planned"
    /\ entry = "SyncPod"
    /\ IF plan.err
       THEN /\ result' = Append(result, SyncResult("SyncPod", "pod", "InspectError"))
            /\ pc' = "done"
            /\ UNCHANGED <<tasks, killQueue, toStartLeft, podInfraContainerID, log>>
       ELSE /\ toStartLeft' = DOMAIN plan.ContainersToStart
            /\ podInfraContainerID' = plan.InfraContainerId
            /\ UNCHANGED result
            /\ IF killWholePod(plan)
               THEN /\ tasks' = StartKillTasks
                    /\ log' = Append(log, Ev("KillPodCall", "SyncPod", "", 0, 0))
                    /\ pc' = "killPod"
                    /\ UNCHANGED killQueue
               ELSE /\ killQueue' = GetRunningContainerStatuses(podStatus)
                    /\ pc' = "killUnwanted"
                    /\ UNCHANGED <<tasks, log>>
    /\ UNCHANGED <<conv, rc, kc, firstCall, inputVars, plan, running, nextId, reasonCache,
                   containerResults, networkContainer, faults>>

\* killMessage = containerChanges.ContainersToStart[i] for the index i of
\* the container of that name in the pod spec; "" when there is none or the
\* map has no such key.
killMessage(changes, name) ==
    IF \E i \in DOMAIN changes.ContainersToStart : pod.containers[i].name = name
    THEN changes.ContainersToStart[
             CHOOSE i \in DOMAIN changes.ContainersToStart : pod.containers[i].name = name]
    ELSE ""

\* The call KillContainerInPod(id, podContainer, pod, killMessage) of the
\* loop over the running containers.
KillCall(name, id, message) ==
    [op |-> "KillCall", by |-> "SyncPod", name |-> name, id |-> id, ref |-> 0,
     message |-> message]

C3_unwantedMutant(changes, id) == TRUE

\* _, keep := ContainersToKeep[id]; if !keep
unwanted(changes, id) == id \notin DOMAIN changes.ContainersToKeep

\* One round of the loop over the running containers: a kept one is passed
\* over, another is killed, and a failed kill ends SyncPod.
KillUnwanted ==
    /\ pc = "killUnwanted"
    /\ killQueue # <<>>
    /\ LET st == Head(killQueue) IN
       IF ~unwanted(plan, st.id)
       THEN /\ killQueue' = Tail(killQueue)
            /\ UNCHANGED <<pc, log, running, result, faults>>
       ELSE \E how \in KillOutcomes(SpecKnownFor(st.name)) :
            /\ log' = log \o <<KillCall(st.name, st.id, killMessage(plan, st.name))>>
                          \o KillEvents("SyncPod", st.name, st.id, how)
            /\ running' = RunningAfterKill(running, st.id, how)
            /\ result' = Append(result, SyncResult("KillContainer", st.name,
                                  IF KillFailed(how) THEN "KillContainerError" ELSE ""))
            /\ faults' = faults + FaultCost(how)
            /\ IF KillFailed(how)
               THEN pc' = "done" /\ UNCHANGED killQueue
               ELSE killQueue' = Tail(killQueue) /\ UNCHANGED pc
    /\ UNCHANGED <<conv, rc, kc, firstCall, inputVars, plan, nextId, reasonCache, tasks, containerResults,
                   networkContainer, toStartLeft, podInfraContainerID>>

\* The loop over the running containers is over.
KillUnwantedDone ==
    /\ pc = "killUnwanted"
    /\ killQueue = <<>>
    /\ pc' = AfterKillPhase
    /\ UNCHANGED <<conv, rc, kc, firstCall, inputVars, plan, runVars>>

(***************************************************************************)
(* runContainerInPod.                                                      *)
(***************************************************************************)
\* How a run can go: "createErr" (no container), "startErr" (created, not
\* started), "postStartErr" (started, the post-start hook failed and the
\* container is killed), "afterStartErr" (started; the inspect, the init
\* pid, the OOM score or the ndots option failed), "ok".
RunOutcomes(container) ==
    {"ok"} \cup (IF CanFault
                 THEN {"createErr", "startErr", "afterStartErr"}
                      \cup (IF container.postStart THEN {"postStartErr"} ELSE {})
                 ELSE {})

RunFailed(how) == how # "ok"

\* client.CreateContainer of runContainer: the labels of the new container
\* carry the restart count it was handed (newLabels).
Created(by, name, id, ref, restartCount) ==
    [op |-> "Create", by |-> by, name |-> name, id |-> id, ref |-> ref,
     restartCount |-> restartCount]

\* The calls of one runContainerInPod; the post-start kill's Stop succeeds.
RunEvents(by, name, id, ref, restartCount, how) ==
    IF how = "createErr" THEN <<>>
    ELSE IF how = "startErr" THEN <<Created(by, name, id, ref, restartCount)>>
    ELSE <<Created(by, name, id, ref, restartCount), Ev("Start", by, name, id, ref)>>
         \o (IF how = "postStartErr"
             THEN KillEvents("runContainerInPod", name, id, "ok") ELSE <<>>)

\* Whether the container runs when runContainerInPod returns.
RunningAfterRun(how) == how \in {"ok", "afterStartErr"}

IdsUsed(how) == IF how = "createErr" THEN 0 ELSE 1

InfraContainer == [name |-> PodInfraContainerName, content |-> 0,
                   runAsNonRoot |-> FALSE, postStart |-> FALSE]

(***************************************************************************)
(* SyncPod: the infra container and the network.                           *)
(***************************************************************************)
C19_afterCreateInfraMutant(how) == "setupNetwork"

\* if err != nil { startContainerResult.Fail(err, msg); return }
afterCreateInfra(how) == IF how = "ok" THEN "setupNetwork" ELSE "done"

\* createPodInfraContainer: pull the image, run the container.
CreatePodInfraContainer ==
    /\ pc = "infra"
    /\ \E how \in RunOutcomes(InfraContainer) \cup (IF CanFault THEN {"pullErr"} ELSE {}) :
         /\ log' = log \o (IF how = "pullErr" THEN <<>>
                           ELSE RunEvents("createPodInfraContainer",
                                          PodInfraContainerName, nextId, 0, 0, how))
         /\ running' = IF how # "pullErr" /\ RunningAfterRun(how)
                       THEN running \cup {nextId} ELSE running
         /\ nextId' = nextId + (IF how = "pullErr" THEN 0 ELSE IdsUsed(how))
         /\ result' = Append(result, SyncResult("StartContainer", PodInfraContainerName,
                        IF how = "ok" THEN ""
                        ELSE IF how = "pullErr" THEN "ErrImagePull"
                        ELSE "RunContainerError"))
         /\ faults' = faults + FaultCost(how)
         /\ podInfraContainerID' = IF how = "ok" THEN nextId ELSE 0
         /\ pc' = afterCreateInfra(how)
    /\ UNCHANGED <<conv, rc, kc, firstCall, inputVars, plan, reasonCache, tasks, containerResults,
                   networkContainer, killQueue, toStartLeft>>

C2_needsNetworkSetupMutant(p) == FALSE

\* if !usesHostNetwork(pod) { networkPlugin.SetUpPod ... }
needsNetworkSetup(p) == ~usesHostNetwork(p)

\* The network of the new infra container is set up; when that fails the
\* infra container is killed and SyncPod ends.
SetUpNetwork ==
    /\ pc = "setupNetwork"
    /\ IF ~needsNetworkSetup(pod)
       THEN /\ result' = Append(result, SyncResult("SetupNetwork", "pod", ""))
            /\ pc' = "inspectInfra"
            /\ UNCHANGED <<log, running, faults>>
       ELSE \/ /\ log' = log \o <<Ev("SetUpPod", "SyncPod", PodInfraContainerName,
                                     podInfraContainerID, 0),
                                  Ev("SetUpPodReturn", "SyncPod", PodInfraContainerName,
                                     podInfraContainerID, 0)>>
               /\ result' = Append(result, SyncResult("SetupNetwork", "pod", ""))
               /\ pc' = "inspectInfra"
               /\ UNCHANGED <<running, faults>>
            \/ /\ CanFault
               /\ \E how \in KillOutcomesAt(FALSE, faults + 1) :
                    /\ log' = log \o <<Ev("SetUpPod", "SyncPod", PodInfraContainerName,
                                          podInfraContainerID, 0)>>
                                  \o KillEvents("SyncPod", PodInfraContainerName,
                                                podInfraContainerID, how)
                    /\ running' = RunningAfterKill(running, podInfraContainerID, how)
                    /\ result' = result \o
                         <<SyncResult("SetupNetwork", "pod", "SetupNetworkError"),
                           SyncResult("KillContainer", PodInfraContainerName,
                              IF KillFailed(how) THEN "KillContainerError" ELSE "")>>
                    /\ faults' = faults + 1 + FaultCost(how)
               /\ pc' = "done"
    /\ UNCHANGED <<conv, rc, kc, firstCall, inputVars, plan, nextId, reasonCache, tasks, containerResults,
                   networkContainer, killQueue, toStartLeft, podInfraContainerID>>

\* The new infra container is inspected (hairpin mode, the pod IP).
InspectInfra ==
    /\ pc = "inspectInfra"
    /\ \/ pc' = "start" /\ UNCHANGED <<result, faults>>
       \/ /\ CanFault
          /\ result' = Append(result, SyncResult("SyncPod", "pod", "InspectError"))
          /\ faults' = faults + 1
          /\ pc' = "done"
    /\ UNCHANGED <<conv, rc, kc, firstCall, inputVars, plan, running, nextId, log, reasonCache, tasks,
                   containerResults, networkContainer, killQueue, toStartLeft,
                   podInfraContainerID>>

(***************************************************************************)
(* SyncPod: the containers to start.                                       *)
(***************************************************************************)
C20_backOffAppliesMutant(changes, statuses, container) ==
    LET si == FindContainerStatusByName(statuses, container.name) IN
    /\ si # 0
    /\ statuses[si].state = "Exited"
    /\ statuses[si].finished

\* doBackOff looks at the backoff only for a container whose latest status
\* is exited with a finish time.
backOffApplies(changes, statuses, container) ==
    LET si == FindContainerStatusByName(statuses, container.name) IN
    /\ ~changes.StartInfraContainer
    /\ si # 0
    /\ statuses[si].state = "Exited"
    /\ statuses[si].finished

\* err, msg := dm.imagePuller.PullImage(...) with err != nil: the puller's
\* error is ErrImagePull or ImagePullBackOff.
PullFailed(how) == how \in {"pullErr", "pullBackOff"}

\* The msg of a failed pull.
PullMessage(how) ==
    IF how = "pullBackOff" THEN "Back-off pulling image" ELSE "pull failed"

\* How one round of the start loop can go.
StartOutcomes(container) ==
    RunOutcomes(container)
    \cup (IF backOffApplies(plan, podStatus, container) THEN {"backoff"} ELSE {})
    \cup (IF CanFault THEN {"pullErr", "pullBackOff"} ELSE {})
    \cup (IF CanFault /\ container.runAsNonRoot THEN {"verifyErr"} ELSE {})

StartError(how) ==
    IF how = "ok" THEN ""
    ELSE IF how = "backoff" THEN "CrashLoopBackOff"
    ELSE IF how = "pullErr" THEN "ErrImagePull"
    ELSE IF how = "pullBackOff" THEN "ImagePullBackOff"
    ELSE IF how = "verifyErr" THEN "VerifyNonRootError"
    ELSE "RunContainerError"

\* What one round leaves in the reason cache.
ReasonCacheAfterStart(cache, changes, name, how) ==
    LET \* doBackOff, when it does not back off, clears the entry
        cache0 == IF changes.StartInfraContainer THEN cache
                  ELSE clearReasonCache(cache, name)
    IN
    IF how = "backoff"
    THEN updateReasonCache(cache, name, "CrashLoopBackOff", TRUE, "Back-off restarting failed container")
    ELSE IF PullFailed(how)
    THEN updateReasonCache(cache0, name, StartError(how), TRUE, PullMessage(how))
    ELSE IF how = "verifyErr"
    THEN updateReasonCache(cache0, name, "VerifyNonRootError", TRUE, "image will run as root")
    ELSE LET cache1 == updateReasonCache(cache0, name, "RunContainerError",
                                         RunFailed(how), "runContainer failed")
         IN IF RunFailed(how) THEN cache1 ELSE clearReasonCache(cache1, name)

C22_restartCountOfMutant(statuses, name) ==
    LET si == FindContainerStatusByName(statuses, name) IN
    IF si # 0 THEN statuses[si].restartCount ELSE 0

\* restartCount := 0; if containerStatus != nil { restartCount =
\* containerStatus.RestartCount + 1 }
restartCountOf(statuses, name) ==
    LET si == FindContainerStatusByName(statuses, name) IN
    IF si # 0 THEN statuses[si].restartCount + 1 ELSE 0

C18_leftToStartMutant(left, idx, how) ==
    IF how = "ok" THEN left \ {idx} ELSE {}

\* Every way out of a round is "continue" or the end of the loop body: the
\* range goes on with the indices it has not visited.
leftToStart(left, idx, how) == left \ {idx}

\* One round of "for idx := range containerChanges.ContainersToStart": the
\* range of a map takes the indices in no particular order.
StartContainer(idx) ==
    /\ pc = "start"
    /\ idx \in toStartLeft
    /\ LET container == pod.containers[idx]
           runs(how) == how \notin {"backoff", "pullErr", "pullBackOff", "verifyErr"}
       IN
       \E how \in StartOutcomes(container) :
         /\ log' = log \o <<Ev("Attempt", "SyncPod", container.name, idx, 0)>>
                       \o (IF how = "backoff" THEN <<>>
                           ELSE <<Ev("Pull", "SyncPod", container.name, idx, 0)>>)
                       \o (IF runs(how)
                           THEN RunEvents("SyncPod", container.name, nextId,
                                          podInfraContainerID,
                                          restartCountOf(podStatus, container.name), how)
                           ELSE <<>>)
         /\ running' = IF runs(how) /\ RunningAfterRun(how)
                       THEN running \cup {nextId} ELSE running
         /\ nextId' = nextId + (IF runs(how) THEN IdsUsed(how) ELSE 0)
         /\ result' = Append(result,
                        SyncResult("StartContainer", container.name, StartError(how)))
         /\ reasonCache' = ReasonCacheAfterStart(reasonCache, plan, container.name, how)
         /\ faults' = faults + (IF how \in {"ok", "backoff"} THEN 0 ELSE 1)
         /\ toStartLeft' = leftToStart(toStartLeft, idx, how)
    /\ UNCHANGED <<conv, rc, kc, firstCall, inputVars, plan, pc, tasks, containerResults, networkContainer,
                   killQueue, podInfraContainerID>>

\* The range is over: SyncPod returns.
SyncPodReturn ==
    /\ pc = "start"
    /\ toStartLeft = {}
    /\ pc' = "done"
    /\ UNCHANGED <<conv, rc, kc, firstCall, inputVars, plan, runVars>>

(***************************************************************************)
(* Spec: one call of SyncPod, or of KillPod, on a pod of two containers.   *)
(***************************************************************************)
St(name, id, state, hash, exitCode) ==
    [name |-> name, id |-> id, state |-> state, hash |-> hash,
     exitCode |-> exitCode, finished |-> state = "Exited", restartCount |-> 0]

\* A status whose container carries the restart count n in its labels.
Restarted(st, n) == [st EXCEPT !.restartCount = n]

\* What is observed of the infra container: nothing, it running with the
\* expected hash or another, it exited, or two of them running.
InfraObserved ==
    { <<>>,
      <<St(PodInfraContainerName, 1, "Running", 1, 0)>>,
      <<St(PodInfraContainerName, 1, "Running", 2, 0)>>,
      <<St(PodInfraContainerName, 1, "Exited", 1, 0)>>,
      <<St(PodInfraContainerName, 1, "Running", 1, 0),
        St(PodInfraContainerName, 2, "Running", 1, 0)>> }

C1Observed ==
    { <<>>,
      <<St("c1", 3, "Running", 1, 0)>>,
      <<St("c1", 3, "Running", 2, 0)>>,
      <<St("c1", 3, "Exited", 1, 1)>>,
      <<St("c1", 3, "Exited", 1, 0)>>,
      <<Restarted(St("c1", 3, "Exited", 1, 1), 2)>> }

C2Observed ==
    { <<>>,
      <<St("c2", 4, "Running", 2, 0)>>,
      <<St("c2", 4, "Exited", 2, 1)>> }

ObservedStatuses == {a \o b \o c : a \in InfraObserved, b \in C1Observed, c \in C2Observed}

ObservedLiveness(statuses) ==
    {l \in [1..4 -> {"none", "Success", "Failure"}] :
        /\ l[1] = "none" /\ l[2] = "none"
        /\ l[3] \in (IF 3 \in RunningIds(statuses) THEN {"none", "Failure"} ELSE {"none"})
        /\ l[4] = (IF 4 \in RunningIds(statuses) THEN "Success" ELSE "none")}

SyncedPods ==
    [restartPolicy : RestartPolicies, hostNetwork : BOOLEAN, ports : {0},
     containers : {<<Container("c1", 0), Container("c2", 1)>>}]

\* Entries earlier syncs left in the reason cache.
ReasonCaches ==
    { [n \in ContainerNames |-> NoEntry],
      [n \in ContainerNames |->
         IF n = PodInfraContainerName THEN NoEntry
         ELSE [found |-> TRUE, reason |-> "CrashLoopBackOff",
               message |-> "Back-off restarting failed container"]] }

Init ==
    /\ entry \in {"SyncPod", "KillPod"}
    /\ pod \in SyncedPods
    /\ podStatus \in ObservedStatuses
    /\ liveness \in ObservedLiveness(podStatus)
    /\ reasonCache \in ReasonCaches
    /\ IF entry = "SyncPod"
       THEN /\ podKnown = TRUE
            /\ infraInspect \in InspectAnswers(podStatus) \ {"nilHostConfig"}
            /\ pc = "plan"
            /\ tasks = EmptyMap
       ELSE \* KillPod(pod, runningPod): the pod may be nil
            /\ podKnown \in BOOLEAN
            /\ pod.restartPolicy = "Always" /\ ~pod.hostNetwork
            /\ reasonCache \in {[n \in ContainerNames |-> NoEntry]}
            /\ \A i \in 1..4 : liveness[i] \in {"none", "Success"}
            /\ infraInspect \in InspectAnswers(podStatus)
            /\ pc = "killPod"
            /\ tasks = StartKillTasks
    /\ plan = NoPlan
    /\ running = RunningIds(podStatus)
    /\ nextId = 5
    /\ log = <<>>
    /\ result = <<>>
    /\ containerResults = <<>>
    /\ networkContainer = 0
    /\ killQueue = <<>>
    /\ toStartLeft = {}
    /\ podInfraContainerID = 0
    /\ faults = 0
    /\ kc = NoKill
    /\ firstCall = NoCall
    /\ conv = NoConversion
    /\ rc = NoCache

Next ==
    \/ ComputeChanges
    \/ SyncPodBranch
    \/ \E id \in DOMAIN tasks : KillTaskInfra(id) \/ KillTaskCall(id) \/ KillTaskReturn(id)
    \/ KillPodJoin
    \/ TearDownPod
    \/ KillInfra
    \/ KillUnwanted
    \/ KillUnwantedDone
    \/ CreatePodInfraContainer
    \/ SetUpNetwork
    \/ InspectInfra
    \/ \E idx \in toStartLeft : StartContainer(idx)
    \/ SyncPodReturn

Spec == Init /\ [][Next]_vars

(***************************************************************************)
(* SpecResync: the pod worker calls SyncPod again and again, each time on  *)
(* the PodStatus that GetPodStatus has just read from the daemon. No dead  *)
(* container is garbage collected.                                         *)
(***************************************************************************)
\* The pod worker stops once the daemon has handed out this many ids.
MaxContainers == 8

\* The Create calls of a log, oldest first.
CreateCalls(l) == SelectSeq(l, LAMBDA e : e.op = "Create")

\* The ids the daemon was asked to start.
StartedIds(l) == {l[k].id : k \in {j \in 1..Len(l) : l[j].op = "Start"}}

\* The hash BuildDockerName puts in the name of a container it creates.
HashInName(name) ==
    IF name = PodInfraContainerName
    THEN HashContainer(expectedPodInfraContainer(pod))
    ELSE HashContainer(pod.containers[
             CHOOSE i \in 1..Len(pod.containers) : pod.containers[i].name = name].content)

\* inspectContainer of a container an earlier SyncPod created: its name and
\* hash from the docker name, its restart count from its labels; running,
\* exited (non-zero: it was killed or it crashed), or never started.
inspectCreated(e, run, started) ==
    [name |-> e.name, id |-> e.id,
     state |-> IF e.id \in run THEN "Running" ELSE "Exited",
     hash |-> HashInName(e.name),
     exitCode |-> IF e.id \in run THEN 0 ELSE 1,
     finished |-> e.id \notin run /\ e.id \in started,
     restartCount |-> e.restartCount]

\* inspectContainer of a container that was observed before: it may have
\* stopped since.
inspectAgain(st, run) ==
    IF st.state = "Running" /\ st.id \notin run
    THEN [st EXCEPT !.state = "Exited", !.exitCode = 1, !.finished = TRUE]
    ELSE st

\* The ContainerStatuses GetPodStatus builds: ListContainers(All: true)
\* answers newest first, and every container of the pod is inspected.
ContainerStatuses(statuses, l, run) ==
    LET cs == CreateCalls(l)
        n == Len(cs)
    IN [i \in 1..n |-> inspectCreated(cs[n + 1 - i], run, StartedIds(l))]
       \o [i \in 1..Len(statuses) |-> inspectAgain(statuses[i], run)]

\* What the daemon answers when the planner inspects the infra container:
\* one that SyncPod created has the network mode the pod asks for.
InspectOfInfra(statuses, l) ==
    LET pi == FindContainerStatusByName(statuses, PodInfraContainerName) IN
    IF pi = 0 \/ statuses[pi].state # "Running" THEN "other"
    ELSE IF \E k \in 1..Len(l) : l[k].op = "Create" /\ l[k].id = statuses[pi].id
    THEN (IF usesHostNetwork(pod) THEN namespaceModeHost ELSE "other")
    ELSE infraInspect

\* The running workload containers.
RunningWorkloads ==
    running \ ({podStatus[i].id : i \in {j \in 1..Len(podStatus) :
                    podStatus[j].name = PodInfraContainerName}}
               \cup {log[k].id : k \in {j \in 1..Len(log) :
                    log[j].name = PodInfraContainerName}})

\* SyncPod has returned; the containers of dead exit; the pod worker reads
\* the pod's status afresh (GetPodStatus) and calls SyncPod on it.
GetPodStatus(dead) ==
    /\ pc = "done"
    /\ entry = "SyncPod"
    /\ nextId <= MaxContainers
    /\ LET run == running \ dead
           fresh == ContainerStatuses(podStatus, log, run)
       IN
       /\ podStatus' = fresh
       /\ running' = run
       /\ liveness' = [id \in 1..(nextId - 1) |->
                          IF id \in DOMAIN liveness /\ id \in run
                          THEN liveness[id] ELSE "none"]
       /\ infraInspect' = InspectOfInfra(fresh, log)
    /\ plan' = NoPlan
    /\ pc' = "plan"
    /\ log' = <<>>
    /\ result' = <<>>
    /\ tasks' = EmptyMap
    /\ containerResults' = <<>>
    /\ networkContainer' = 0
    /\ killQueue' = <<>>
    /\ toStartLeft' = {}
    /\ podInfraContainerID' = 0
    /\ UNCHANGED <<entry, pod, podKnown, nextId, reasonCache, faults, conv, rc, kc, firstCall>>

InitResync ==
    /\ entry = "SyncPod"
    /\ pod \in SyncedPods
    /\ pod.restartPolicy # "Never"
    /\ ~pod.hostNetwork
    /\ podStatus \in ObservedStatuses
    /\ liveness \in ObservedLiveness(podStatus)
    /\ reasonCache = [n \in ContainerNames |-> NoEntry]
    /\ podKnown = TRUE
    \* one call may fail in all the syncs together
    /\ infraInspect \in InspectAnswers(podStatus) \ {"nilHostConfig", "err"}
    /\ pc = "plan"
    /\ tasks = EmptyMap
    /\ plan = NoPlan
    /\ running = RunningIds(podStatus)
    /\ nextId = 5
    /\ log = <<>>
    /\ result = <<>>
    /\ containerResults = <<>>
    /\ networkContainer = 0
    /\ killQueue = <<>>
    /\ toStartLeft = {}
    /\ podInfraContainerID = 0
    /\ faults = MaxFaults - 1
    /\ kc = NoKill
    /\ firstCall = NoCall
    /\ conv = NoConversion
    /\ rc = NoCache

NextResync ==
    \/ Next
    \/ \E dead \in {{}} \cup {{id} : id \in RunningWorkloads} : GetPodStatus(dead)

SpecResync == InitResync /\ [][NextResync]_vars

(***************************************************************************)
(* SpecConverge: the same re-invocation for a pod with restart policy      *)
(* Always when nothing goes wrong: every daemon, plugin and puller call    *)
(* succeeds, no container exits by itself, no liveness probe fails and no  *)
(* start is held back by a backoff. The pod worker keeps syncing.          *)
(***************************************************************************)
\* doBackOff held no start back.
NoBackOff ==
    \A r \in 1..Len(result) : result[r].error # "CrashLoopBackOff"

InitConverge ==
    /\ entry = "SyncPod"
    /\ pod \in SyncedPods
    /\ pod.restartPolicy = "Always"
    /\ podStatus \in ObservedStatuses
    /\ liveness \in ObservedLiveness(podStatus)
    /\ \A id \in DOMAIN liveness : liveness[id] # "Failure"
    /\ reasonCache \in ReasonCaches
    /\ podKnown = TRUE
    /\ infraInspect \in InspectAnswers(podStatus) \ {"nilHostConfig", "err"}
    /\ pc = "plan"
    /\ tasks = EmptyMap
    /\ plan = NoPlan
    /\ running = RunningIds(podStatus)
    /\ nextId = 5
    /\ log = <<>>
    /\ result = <<>>
    /\ containerResults = <<>>
    /\ networkContainer = 0
    /\ killQueue = <<>>
    /\ toStartLeft = {}
    /\ podInfraContainerID = 0
    \* no call fails
    /\ faults = MaxFaults
    /\ kc = NoKill
    /\ firstCall = NoCall
    /\ conv = NoConversion
    /\ rc = NoCache

NextConverge ==
    \/ ComputeChanges
    \/ SyncPodBranch
    \/ \E id \in DOMAIN tasks : KillTaskInfra(id) \/ KillTaskCall(id) \/ KillTaskReturn(id)
    \/ KillPodJoin
    \/ TearDownPod
    \/ KillInfra
    \/ KillUnwanted
    \/ KillUnwantedDone
    \/ CreatePodInfraContainer
    \/ SetUpNetwork
    \/ InspectInfra
    \/ \E idx \in toStartLeft : StartContainer(idx) /\ NoBackOff'
    \/ SyncPodReturn
    \/ GetPodStatus({})

\* Every call returns, the goroutines of a kill are scheduled, and the pod
\* worker calls SyncPod again after each return.
SpecConverge == InitConverge /\ [][NextConverge]_vars /\ WF_vars(NextConverge)

(***************************************************************************)
(* SpecReplan: the planner called twice in succession on the same pod and  *)
(* the same observed PodStatus, while the prober and the daemon go on.     *)
(***************************************************************************)
\* The prober's worker of a container stores a new result in the liveness
\* manager.
LivenessChanges ==
    /\ pc = "planned" /\ entry = "Replan"
    /\ liveness' \in ObservedLiveness(podStatus) \ {liveness}
    /\ UNCHANGED <<entry, pod, podKnown, podStatus, infraInspect, plan, pc,
                   runVars, conv, rc, kc, firstCall>>

\* The daemon's next answer to InspectContainer differs from its last.
InspectChanges ==
    /\ pc = "planned" /\ entry = "Replan"
    /\ infraInspect' \in InspectAnswers(podStatus) \ {infraInspect}
    /\ UNCHANGED <<entry, pod, podKnown, podStatus, liveness, plan, pc,
                   runVars, conv, rc, kc, firstCall>>

\* The second call, on the same pod and PodStatus.
ComputeChangesAgain ==
    /\ pc = "planned" /\ entry = "Replan"
    /\ plan' = computePodContainerChanges(pod, podStatus, liveness, infraInspect)
    /\ pc' = "replanned"
    /\ UNCHANGED <<conv, rc, kc, firstCall, inputVars, runVars>>

InitReplan ==
    /\ entry = "Replan"
    /\ pod \in SyncedPods
    /\ podStatus \in ObservedStatuses
    /\ liveness \in ObservedLiveness(podStatus)
    /\ infraInspect \in InspectAnswers(podStatus)
    /\ podKnown = TRUE
    /\ plan = NoPlan
    /\ pc = "plan"
    /\ running = RunningIds(podStatus)
    /\ nextId = 5
    /\ log = <<>>
    /\ result = <<>>
    /\ reasonCache = [n \in ContainerNames |-> NoEntry]
    /\ tasks = EmptyMap
    /\ containerResults = <<>>
    /\ networkContainer = 0
    /\ killQueue = <<>>
    /\ toStartLeft = {}
    /\ podInfraContainerID = 0
    /\ faults = 0
    /\ kc = NoKill
    /\ firstCall = NoCall
    /\ conv = NoConversion
    /\ rc = NoCache

NextReplan ==
    \/ ComputeChanges
    \/ LivenessChanges
    \/ InspectChanges
    \/ ComputeChangesAgain

SpecReplan == InitReplan /\ [][NextReplan]_vars

(***************************************************************************)
(* Properties of the plan.                                                 *)
(***************************************************************************)
SpecIndices == 1..Len(pod.containers)

StatusOf(i) == FindContainerStatusByName(podStatus, pod.containers[i].name)

RunningWorkload(i) == StatusOf(i) # 0 /\ podStatus[StatusOf(i)].state = "Running"

InfraStatus == FindContainerStatusByName(podStatus, PodInfraContainerName)

InfraIsRunning == InfraStatus # 0 /\ podStatus[InfraStatus].state = "Running"

Planned == pc = "planned" /\ ~plan.err

\* C6: whenever the planner returns a plan with StartInfraContainer = true,
\* ContainersToKeep of that plan is empty.
C6_StartInfraKeepsNothing ==
    (Planned /\ plan.StartInfraContainer) => DOMAIN plan.ContainersToKeep = {}

\* The infra container is recreated while a healthy workload container of the
\* spec is running with an unchanged hash.
C6_Witness ==
    /\ Planned /\ plan.StartInfraContainer
    /\ \E i \in SpecIndices :
          /\ RunningWorkload(i)
          /\ podStatus[StatusOf(i)].hash = HashContainer(pod.containers[i].content)
          /\ liveness[podStatus[StatusOf(i)].id] = "Success"

\* A running workload container the loop keeps: unchanged and not failing
\* its liveness probe.
KeptWorkload(i) ==
    /\ RunningWorkload(i)
    /\ podStatus[StatusOf(i)].hash \in {0, HashContainer(pod.containers[i].content)}
    /\ liveness[podStatus[StatusOf(i)].id] # "Failure"

\* C7: whenever the planner returns a plan with StartInfraContainer = false,
\* InfraContainerId is the id of the running infra container, and
\* ContainersToKeep maps it to -1, except exactly when nothing is to be
\* started and no workload container is kept: then ContainersToKeep is empty.
C7_KeptInfraIsSeeded ==
    (Planned /\ ~plan.StartInfraContainer) =>
        /\ InfraIsRunning
        /\ plan.InfraContainerId = podStatus[InfraStatus].id
        /\ IF DOMAIN plan.ContainersToStart = {}
              /\ \A i \in SpecIndices : ~KeptWorkload(i)
           THEN DOMAIN plan.ContainersToKeep = {}
           ELSE /\ plan.InfraContainerId \in DOMAIN plan.ContainersToKeep
                /\ plan.ContainersToKeep[plan.InfraContainerId] = -1

\* The infra container is kept, a workload container is to be started and
\* none is kept: the infra container is the only entry of ContainersToKeep.
C7_Witness ==
    /\ Planned /\ ~plan.StartInfraContainer
    /\ DOMAIN plan.ContainersToStart # {}
    /\ DOMAIN plan.ContainersToKeep = {plan.InfraContainerId}

\* The infra container is kept with nothing to start and nothing else to
\* keep: ContainersToKeep was cleared.
C7_WitnessLonely ==
    /\ Planned /\ ~plan.StartInfraContainer
    /\ DOMAIN plan.ContainersToKeep = {}

\* C8: a running container whose observed hash is 0 is never classified as
\* changed because of its hash: a workload container is not restarted for a
\* hash mismatch, and an infra container whose network mode fits the pod
\* does not make the plan set InfraChanged or StartInfraContainer.
C8_HashZeroNeverChanged ==
    Planned =>
        /\ \A i \in SpecIndices :
              (RunningWorkload(i) /\ podStatus[StatusOf(i)].hash = 0) =>
                 ~(i \in DOMAIN plan.ContainersToStart
                   /\ plan.ContainersToStart[i] = "hash")
        /\ (/\ InfraIsRunning
            /\ podStatus[InfraStatus].hash = 0
            /\ ~(usesHostNetwork(pod) /\ infraInspect # "host"))
              => (~plan.InfraChanged /\ ~plan.StartInfraContainer)

\* The workload half of C8 alone.
C8_WorkloadHashZeroNeverChanged ==
    Planned =>
        \A i \in SpecIndices :
           (RunningWorkload(i) /\ podStatus[StatusOf(i)].hash = 0) =>
              ~(i \in DOMAIN plan.ContainersToStart
                /\ plan.ContainersToStart[i] = "hash")

C9_WitnessError ==
    /\ pc = "replanned"
    /\ ~firstCall.plan.err /\ plan.err

(***************************************************************************)
(* Properties of the calls of one run.                                     *)
(***************************************************************************)
LogIndices == 1..Len(log)

\* The workload containers killPodWithSyncResult has a goroutine for.
KillPodWorkloads ==
    {id \in DOMAIN tasks : StatusById(id).name # PodInfraContainerName}

\* The kill of every workload container of the running pod returned before
\* position k of the log.
WorkloadKillsReturnedBefore(k) ==
    \A id \in KillPodWorkloads :
        \E j \in 1..(k - 1) :
            log[j].op = "KillReturn" /\ log[j].by = "killPod" /\ log[j].id = id

\* C1: in killPodWithSyncResult, TearDownPod is invoked only after the kill of
\* every non-infra container of the running pod has returned, with or
\* without error, and the Stop of the infra container is issued only after
\* those kills returned and, for an infra container whose network mode is
\* not host (the only one TearDownPod is called for), after TearDownPod
\* returned.
C1_TeardownAfterWorkloadsBeforeInfra ==
    \A k \in LogIndices :
        /\ log[k].op = "TearDownPod" => WorkloadKillsReturnedBefore(k)
        /\ (log[k].op = "StopCall" /\ log[k].by = "killPod"
            /\ log[k].name = PodInfraContainerName) =>
              /\ WorkloadKillsReturnedBefore(k)
              /\ infraInspect \notin {"nilHostConfig", namespaceModeHost} =>
                   \E j \in 1..(k - 1) :
                       log[j].op = "TearDownPodReturn" /\ log[j].id = log[k].id

\* C1, as stated: every Stop of the infra container that killPod issues
\* comes after a TearDownPod that returned.
C1_InfraStopAlwaysAfterTearDown ==
    \A k \in LogIndices :
        (log[k].op = "StopCall" /\ log[k].by = "killPod"
         /\ log[k].name = PodInfraContainerName) =>
            \E j \in 1..(k - 1) : log[j].op = "TearDownPodReturn"

\* Two workload containers were killed in parallel, one kill failing, then the
\* network was torn down and the infra container stopped.
C1_Witness ==
    /\ Cardinality(KillPodWorkloads) = 2
    /\ \E r \in 1..Len(result) :
          result[r].action = "KillContainer" /\ result[r].error # ""
          /\ result[r].target # PodInfraContainerName
    /\ \E j, k \in LogIndices :
          /\ j < k
          /\ log[j].op = "TearDownPodReturn"
          /\ log[k].op = "StopCall" /\ log[k].by = "killPod"
          /\ log[k].name = PodInfraContainerName

\* The infra container this run of SyncPod created and started, if any.
InfraStartedAt(i) ==
    /\ log[i].op = "Start"
    /\ log[i].by = "createPodInfraContainer"
    /\ log[i].name = PodInfraContainerName

WorkloadLaunchAt(k) ==
    /\ log[k].op \in {"Create", "Start"}
    /\ log[k].by = "SyncPod"
    /\ log[k].name # PodInfraContainerName

\* C2: in a SyncPod run that creates an infra container for a pod not on host
\* network, SetUpPod is called for that infra container after its start, and
\* it has returned before any workload container is created or started.
C2_SetUpPodBetweenInfraAndWorkloads ==
    (entry = "SyncPod" /\ ~usesHostNetwork(pod)) =>
        /\ \A j \in LogIndices :
              log[j].op = "SetUpPod" =>
                 \E i \in 1..(j - 1) : InfraStartedAt(i) /\ log[i].id = log[j].id
        /\ \A k \in LogIndices :
              (WorkloadLaunchAt(k) /\ \E i \in LogIndices : InfraStartedAt(i)) =>
                 \E i, j \in 1..(k - 1) :
                    /\ i < j
                    /\ InfraStartedAt(i)
                    /\ log[j].op = "SetUpPodReturn" /\ log[j].id = log[i].id
        /\ (pc \in {"inspectInfra", "start"} /\ plan.StartInfraContainer
            /\ DOMAIN plan.ContainersToStart # {}) =>
              \E j \in LogIndices : log[j].op = "SetUpPod"

\* A workload container was started after a new infra container and its
\* network set-up, for a pod not on host network.
C2_Witness ==
    /\ entry = "SyncPod" /\ ~usesHostNetwork(pod)
    /\ \E i, j, k \in LogIndices :
          /\ InfraStartedAt(i)
          /\ log[j].op = "SetUpPodReturn"
          /\ WorkloadLaunchAt(k) /\ log[k].op = "Start"

\* C3: every workload container SyncPod starts attaches to ("container:<ref>")
\* an infra container that was started before: the running infra container
\* the plan keeps, or the one created earlier in this run; and this run has
\* issued no Stop for that infra container.
C3_WorkloadsAttachToLiveInfra ==
    \A k \in LogIndices :
        (log[k].op = "Start" /\ WorkloadLaunchAt(k)) =>
            /\ log[k].ref # 0
            /\ \/ \E i \in 1..(k - 1) : InfraStartedAt(i) /\ log[i].id = log[k].ref
               \/ /\ ~plan.StartInfraContainer
                  /\ log[k].ref = plan.InfraContainerId
                  /\ InfraIsRunning
                  /\ podStatus[InfraStatus].id = log[k].ref
            /\ ~\E j \in 1..(k - 1) : log[j].op = "StopCall" /\ log[j].id = log[k].ref

\* The infra container is kept, an unwanted container was stopped, and a
\* workload container was started attached to the kept infra container.
C3_Witness ==
    /\ ~plan.StartInfraContainer
    /\ \E j, k \in LogIndices :
          /\ j < k
          /\ log[j].op = "StopCall"
          /\ log[k].op = "Start" /\ WorkloadLaunchAt(k)
          /\ log[k].ref = plan.InfraContainerId

\* A workload container was started attached to the infra container created
\* in this run, after the old pod was killed.
C3_WitnessNewInfra ==
    \E i, j, k \in LogIndices :
        /\ i < j /\ j < k
        /\ log[i].op = "StopCall"
        /\ InfraStartedAt(j)
        /\ log[k].op = "Start" /\ WorkloadLaunchAt(k) /\ log[k].ref = log[j].id

\* C5: the containers in ContainersToStart are attempted one at a time in
\* increasing order of their index in the pod spec.
C5_StartsInSpecOrder ==
    \A j, k \in LogIndices :
        (j < k /\ log[j].op = "Attempt" /\ log[k].op = "Attempt") =>
            log[j].id < log[k].id

\* What holds of the start loop: one attempt per index, each complete (its
\* result is recorded) before the next begins.
C5_StartsOneAtATime ==
    /\ \A j, k \in LogIndices :
          (j < k /\ log[j].op = "Attempt" /\ log[k].op = "Attempt") =>
              log[j].id # log[k].id
    /\ Cardinality({k \in LogIndices : log[k].op = "Attempt"})
         = Cardinality({r \in 1..Len(result) :
                           result[r].action = "StartContainer"
                           /\ result[r].target # PodInfraContainerName})

\* C10: after a successful run of a container (its StartContainer result
\* carries no error) the reason cache holds no entry for that container,
\* whatever earlier syncs had left there.
C10_NoReasonAfterSuccess ==
    \A r \in 1..Len(result) :
        (result[r].action = "StartContainer" /\ result[r].error = "") =>
            ~reasonCache[result[r].target].found

\* c1 was started successfully while the infra container was recreated (the
\* backoff, which also clears, is not consulted) with entries of earlier
\* syncs in the cache: the one of c2 is still there.
C10_Witness ==
    /\ plan.StartInfraContainer
    /\ \E r \in 1..Len(result) :
          result[r].action = "StartContainer" /\ result[r].error = ""
          /\ result[r].target = "c1"
    /\ ~reasonCache["c1"].found
    /\ reasonCache["c2"].found

(***************************************************************************)
(* Failures and what they leave behind.                                    *)
(***************************************************************************)
ResultIndices == 1..Len(result)

\* The SyncResult at r reports a failed run of a container.
RunFailureAt(r) ==
    result[r].action = "StartContainer" /\ result[r].error = "RunContainerError"

CachedWithReason(name) ==
    /\ reasonCache[name].found
    /\ reasonCache[name].reason # ""
    /\ reasonCache[name].message # ""

\* C11: after any failed run of a container, of a workload container or of
\* the infra container, the reason cache holds an entry for that container
\* with a non-empty reason and a non-empty message.
C11_RunFailureIsCached ==
    \A r \in ResultIndices : RunFailureAt(r) => CachedWithReason(result[r].target)

\* C11 for the workload containers alone.
C11_WorkloadRunFailureIsCached ==
    \A r \in ResultIndices :
        (RunFailureAt(r) /\ result[r].target # PodInfraContainerName) =>
            CachedWithReason(result[r].target)

(***************************************************************************)
(* Properties of SyncPod's branches.                                       *)
(***************************************************************************)
\* SyncPod got a plan and is past the choice of its kill phase.
PastKillChoice == entry = "SyncPod" /\ pc \notin {"plan", "planned"} /\ ~plan.err

KillPodCalled == \E k \in LogIndices : log[k].op = "KillPodCall"

\* killPodWithSyncResult, called by SyncPod, reported an error: a failed
\* kill or teardown among the results before any start of a container.
KillPodFailed ==
    /\ KillPodCalled
    /\ \E r \in ResultIndices :
          /\ result[r].action \in {"KillContainer", "TeardownNetwork"}
          /\ result[r].error # ""
          /\ \A q \in 1..(r - 1) : result[q].action # "StartContainer"

\* Nothing was created, set up or started.
NothingLaunched ==
    /\ \A k \in LogIndices :
          log[k].op \notin {"Create", "Start", "SetUpPod", "Pull", "Attempt"}
    /\ \A r \in ResultIndices :
          result[r].action \notin {"StartContainer", "SetupNetwork"}

\* C15: SyncPod calls the whole-pod kill exactly when the plan has
\* StartInfraContainer or both ContainersToKeep and ContainersToStart are
\* empty; when that kill reports an error SyncPod returns: it creates no
\* infra container, calls no SetUpPod and starts no workload container.
C15_WholePodKillAndAbort ==
    PastKillChoice =>
        /\ KillPodCalled <=>
             (plan.StartInfraContainer
              \/ (DOMAIN plan.ContainersToKeep = {}
                  /\ DOMAIN plan.ContainersToStart = {}))
        /\ KillPodFailed => NothingLaunched
        /\ (KillPodFailed /\ pc # "killPod" /\ pc # "teardown" /\ pc # "killInfra")
             => pc = "done"

\* The whole pod was to be recreated, a kill failed, and SyncPod returned
\* with its containers to start left alone.
C15_Witness ==
    /\ PastKillChoice /\ KillPodFailed /\ pc = "done"
    /\ plan.StartInfraContainer
    /\ DOMAIN plan.ContainersToStart # {}

\* The whole pod is killed because nothing is to be kept or started.
C15_WitnessNothingLeft ==
    /\ PastKillChoice /\ KillPodCalled /\ ~plan.StartInfraContainer
    /\ \E k \in LogIndices : log[k].op = "StopCall"

\* SyncPod took the branch that kills container by container.
SelectiveKill == PastKillChoice /\ ~KillPodCalled

\* The observed running containers the plan does not keep.
UnwantedRunning ==
    {i \in 1..Len(podStatus) :
        /\ podStatus[i].state = "Running"
        /\ podStatus[i].id \notin DOMAIN plan.ContainersToKeep}

\* KillContainerInPod was called for the container of status i, with the
\* plan's reason to start it when it has one.
KilledWithReason(i) ==
    \E k \in LogIndices :
        /\ log[k].op = "KillCall"
        /\ log[k].id = podStatus[i].id
        /\ log[k].message = killMessage(plan, podStatus[i].name)

KeptNeverStopped ==
    \A k \in LogIndices :
        log[k].op = "StopCall" => log[k].id \notin DOMAIN plan.ContainersToKeep

\* C16: when SyncPod does not kill the whole pod, then by the end of its kill
\* loop it has called the single-container kill for every observed running
\* container whose id is not in ContainersToKeep, with the ContainersToStart
\* reason of the container's spec index when there is one, and it issues no
\* Stop for a container whose id is in ContainersToKeep.
C16_KillsAllUnwantedKeepsKept ==
    SelectiveKill =>
        /\ pc \in {"start", "done"} => \A i \in UnwantedRunning : KilledWithReason(i)
        /\ KeptNeverStopped

\* C16 as far as it holds: the kills up to the first that fails.
C16_KillsUnwantedUntilFailure ==
    SelectiveKill =>
        /\ (pc \in {"start", "done"} /\ ~KillPodFailed
             /\ \A r \in ResultIndices :
                   result[r].action = "KillContainer" => result[r].error = "")
             => \A i \in UnwantedRunning : KilledWithReason(i)
        /\ KeptNeverStopped

\* Every index of ContainersToStart was attempted.
AllStartsAttempted ==
    \A idx \in DOMAIN plan.ContainersToStart :
        \E k \in LogIndices : log[k].op = "Attempt" /\ log[k].id = idx

\* C17: in the branch that kills container by container, a failed kill of
\* one unwanted container stops nothing: when SyncPod returns, the failure is
\* in that container's SyncResult, the remaining unwanted containers were
\* killed too, and every container of ContainersToStart was attempted.
C17_SelectiveKillFailureGoesOn ==
    (SelectiveKill /\ pc = "done") =>
        /\ \A i \in UnwantedRunning :
              \E k \in LogIndices : log[k].op = "KillCall" /\ log[k].id = podStatus[i].id
        /\ AllStartsAttempted

\* What holds: without a failed kill, every container to start is attempted.
C17_GoesOnWithoutKillFailure ==
    (SelectiveKill /\ pc = "done"
     /\ \A r \in ResultIndices :
           result[r].action = "KillContainer" => result[r].error = "")
        => AllStartsAttempted

\* The start loop of SyncPod was entered with something to start.
StartLoopEntered == \E k \in LogIndices : log[k].op = "Attempt"

AttemptsOf(idx) == {k \in LogIndices : log[k].op = "Attempt" /\ log[k].id = idx}

StartResultsOf(idx) ==
    {r \in ResultIndices :
        /\ result[r].action = "StartContainer"
        /\ result[r].target = pod.containers[idx].name}

\* C18: in the start phase a failure for one container (backoff, image pull,
\* non-root verification, create or start) does not end the sync: when
\* SyncPod returns from the start loop, every index of ContainersToStart has
\* exactly one start attempt and exactly one StartContainer SyncResult,
\* whichever of the others failed; and none ever has more than one.
C18_EveryStartAttemptedOnce ==
    /\ \A idx \in DOMAIN plan.ContainersToStart :
          /\ Cardinality(AttemptsOf(idx)) <= 1
          /\ Cardinality(StartResultsOf(idx)) = Cardinality(AttemptsOf(idx))
    /\ (entry = "SyncPod" /\ pc = "done" /\ StartLoopEntered) =>
          \A idx \in DOMAIN plan.ContainersToStart :
              Cardinality(AttemptsOf(idx)) = 1

\* The first container attempted failed and the other was attempted after it.
C18_Witness ==
    /\ entry = "SyncPod" /\ pc = "done"
    /\ Cardinality(DOMAIN plan.ContainersToStart) = 2
    /\ \E q, r \in ResultIndices :
          /\ q < r
          /\ result[q].action = "StartContainer" /\ result[q].error # ""
          /\ result[q].target # PodInfraContainerName
          /\ result[r].action = "StartContainer"

\* The creation of the infra container failed.
InfraCreationFailed ==
    \E r \in ResultIndices :
        /\ result[r].action = "StartContainer"
        /\ result[r].target = PodInfraContainerName
        /\ result[r].error # ""

SetUpPodFailed ==
    \E r \in ResultIndices :
        result[r].action = "SetupNetwork" /\ result[r].error # ""

NoWorkloadLaunched ==
    \A k \in LogIndices : ~WorkloadLaunchAt(k) /\ log[k].op \notin {"Attempt", "Pull"}

\* A Stop was issued for the infra container this run created.
NewInfraStopIssued ==
    \E i, k \in LogIndices :
        /\ i < k
        /\ InfraStartedAt(i)
        /\ log[k].op = "StopCall" /\ log[k].id = log[i].id

\* KillContainerInPod was called for the infra container this run created,
\* and has returned.
NewInfraKillReturned ==
    \E i, k \in LogIndices :
        /\ i < k
        /\ InfraStartedAt(i)
        /\ log[k].op = "KillReturn" /\ log[k].by = "SyncPod" /\ log[k].id = log[i].id

\* The last SyncResult is the failed kill of the infra container.
InfraKillFailedLast ==
    /\ result # <<>>
    /\ result[Len(result)].action = "KillContainer"
    /\ result[Len(result)].target = PodInfraContainerName
    /\ result[Len(result)].error # ""

\* C19, as stated: when the creation of the infra container fails SetUpPod is
\* not called and no workload container is started; when SetUpPod fails a
\* Stop is issued for the infra container just created, no workload
\* container is started and the result carries the SetupNetwork failure.
C19_InfraFailuresAbortWithStop ==
    entry = "SyncPod" =>
        /\ InfraCreationFailed =>
              (NoWorkloadLaunched /\ \A k \in LogIndices : log[k].op # "SetUpPod")
        /\ (\E k \in LogIndices : log[k].op = "SetUpPod")
              /\ ~(\E k \in LogIndices : log[k].op = "SetUpPodReturn")
              /\ pc = "done"
             => (SetUpPodFailed /\ NewInfraStopIssued /\ NoWorkloadLaunched)

\* C19, amended: when SetUpPod fails the kill of the infra container just
\* created is called, and it issues a Stop unless its own inspect of the
\* container fails, in which case the kill fails without a Stop.
C19_InfraFailuresAbortWithKill ==
    entry = "SyncPod" =>
        /\ InfraCreationFailed =>
              (NoWorkloadLaunched /\ pc = "done"
               /\ \A k \in LogIndices : log[k].op # "SetUpPod")
        /\ SetUpPodFailed =>
              /\ pc = "done"
              /\ NoWorkloadLaunched
              /\ NewInfraKillReturned
              /\ NewInfraStopIssued \/ InfraKillFailedLast
        /\ (\E k \in LogIndices : log[k].op = "SetUpPod")
              /\ ~(\E k \in LogIndices : log[k].op = "SetUpPodReturn")
             => SetUpPodFailed

\* SetUpPod failed and the infra container just created was stopped.
C19_Witness ==
    /\ entry = "SyncPod" /\ pc = "done"
    /\ SetUpPodFailed /\ NewInfraStopIssued

\* The creation of the infra container failed with the container started.
C19_WitnessCreation ==
    /\ entry = "SyncPod" /\ pc = "done" /\ InfraCreationFailed
    /\ \E i \in LogIndices : InfraStartedAt(i)

\* The SyncResult at r reports a container in backoff.
BackOffAt(r) ==
    result[r].action = "StartContainer" /\ result[r].error = "CrashLoopBackOff"

\* C20: a container of ContainersToStart found in backoff, which happens only
\* when the infra container is not being recreated and the container's
\* latest status is Exited with a finish time, gets a failed StartContainer
\* SyncResult with CrashLoopBackOff and that reason in the reason cache; no
\* image is pulled and no container created for it; and the loop goes on.
\* When the infra container is being recreated no container is in backoff.
C20_BackOffSkipsTheStart ==
    entry = "SyncPod" =>
      \A r \in ResultIndices :
        BackOffAt(r) =>
          LET name == result[r].target
              si == FindContainerStatusByName(podStatus, name)
          IN
          /\ ~plan.StartInfraContainer
          /\ si # 0 /\ podStatus[si].state = "Exited" /\ podStatus[si].finished
          /\ reasonCache[name].found
          /\ reasonCache[name].reason = "CrashLoopBackOff"
          /\ reasonCache[name].message # ""
          /\ \A k \in LogIndices :
                log[k].name = name => log[k].op \notin {"Pull", "Create", "Start"}
          /\ pc = "done" =>
                \A idx \in DOMAIN plan.ContainersToStart :
                    Cardinality(AttemptsOf(idx)) = 1

\* c1 was in backoff and c2 was attempted after it.
C20_Witness ==
    /\ entry = "SyncPod" /\ pc = "done"
    /\ \E q, r \in ResultIndices :
          /\ q < r
          /\ BackOffAt(q)
          /\ result[r].action = "StartContainer" /\ result[r].error = ""

\* The infra container is recreated, c1 is observed exited and is started.
C20_WitnessNoBackOff ==
    /\ entry = "SyncPod" /\ plan.StartInfraContainer
    /\ LET si == FindContainerStatusByName(podStatus, "c1") IN
          si # 0 /\ podStatus[si].state = "Exited"
    /\ \E k \in LogIndices : log[k].op = "Start" /\ log[k].name = "c1"

\* The SyncResult at r reports a failed pull of a workload container's image.
PullFailureAt(r) ==
    /\ result[r].action = "StartContainer"
    /\ result[r].target # PodInfraContainerName
    /\ result[r].error \in {"ErrImagePull", "ImagePullBackOff"}

\* C21: when the puller fails for a container of ContainersToStart, the sync
\* has one StartContainer SyncResult for it, failed with the puller's error
\* code, no container is created for it, and the reason cache then holds for
\* it that error code and the puller's message.
C21_PullFailureIsReportedAndCached ==
    entry = "SyncPod" =>
      \A r \in ResultIndices :
        PullFailureAt(r) =>
          LET name == result[r].target IN
          /\ \A q \in ResultIndices :
                (result[q].action = "StartContainer" /\ result[q].target = name)
                    => q = r
          /\ \E k \in LogIndices : log[k].op = "Pull" /\ log[k].name = name
          /\ \A k \in LogIndices :
                log[k].name = name => log[k].op \notin {"Create", "Start"}
          /\ reasonCache[name].found
          /\ reasonCache[name].reason = result[r].error
          /\ reasonCache[name].message =
                (IF result[r].error = "ImagePullBackOff"
                 THEN "Back-off pulling image" ELSE "pull failed")

\* The pull for c1 was refused with ImagePullBackOff while an entry of an
\* earlier sync was in the cache, and c2 was started.
C21_Witness ==
    /\ entry = "SyncPod" /\ pc = "done"
    /\ \E r \in ResultIndices :
          PullFailureAt(r) /\ result[r].error = "ImagePullBackOff"
          /\ result[r].target = "c1"
    /\ \E k \in LogIndices : log[k].op = "Start" /\ log[k].name = "c2"

(***************************************************************************)
(* The infra container left alone.                                         *)
(***************************************************************************)
\* SyncPod has a plan for a pod whose infra container is running and
\* unchanged, with no workload container to start and none to keep.
LonelyInfra ==
    /\ entry = "SyncPod" /\ pc # "plan" /\ ~plan.err
    /\ InfraIsRunning /\ ~plan.InfraChanged
    /\ DOMAIN plan.ContainersToStart = {}
    /\ \A i \in SpecIndices : ~KeptWorkload(i)

\* The infra containers among the observed running containers.
RunningInfraIds ==
    {podStatus[i].id : i \in {j \in 1..Len(podStatus) :
        podStatus[j].name = PodInfraContainerName /\ podStatus[j].state = "Running"}}

C23_LonelyInfraLeavesNothingRunning ==
    LonelyInfra => ((pc = "done" /\ faults = 0) => running = {})

ObservedIds == 1..4

WorkloadNames == ContainerNames \ {PodInfraContainerName}

StatusIndices == 1..Len(podStatus)

\* No status of that name comes before index i in the observed list.
LatestOfName(i) ==
    \A j \in 1..(i - 1) : podStatus[j].name # podStatus[i].name

\* Index j holds the next older record of the name at index i.
NextOlder(i, j) ==
    /\ i < j
    /\ podStatus[j].name = podStatus[i].name
    /\ \A m \in (i + 1)..(j - 1) : podStatus[m].name # podStatus[i].name

\* C22: a workload container SyncPod creates is stamped with a restart
\* count one above that of the latest observed status of its name, and with
\* 0 when no status has that name; and in the PodStatus read back with all
\* dead records kept, each container a sync created counts exactly one more
\* than the next older record of its name (0 when there is none).
C22_RestartCountRisesByOne ==
    /\ \A k \in LogIndices :
          (log[k].op = "Create" /\ log[k].by = "SyncPod") =>
             /\ (\A i \in StatusIndices : podStatus[i].name # log[k].name)
                   => log[k].restartCount = 0
             /\ \A i \in StatusIndices :
                   (podStatus[i].name = log[k].name /\ LatestOfName(i))
                      => log[k].restartCount = podStatus[i].restartCount + 1
    /\ \A i \in StatusIndices :
          (podStatus[i].name \in WorkloadNames /\ podStatus[i].id \notin ObservedIds) =>
             /\ \A j \in StatusIndices :
                   NextOlder(i, j)
                      => podStatus[i].restartCount = podStatus[j].restartCount + 1
             /\ (\A j \in StatusIndices : ~NextOlder(i, j))
                   => podStatus[i].restartCount = 0

\* c1 was observed with restart count 2 and has been restarted by two syncs:
\* the records read back count 3 and the container being created counts 4.
C22_Witness ==
    /\ \E i, j \in StatusIndices :
          /\ NextOlder(i, j)
          /\ podStatus[i].name = "c1" /\ podStatus[i].restartCount = 3
          /\ podStatus[j].id \in ObservedIds /\ podStatus[j].restartCount = 2
    /\ \E k \in LogIndices :
          /\ log[k].op = "Create" /\ log[k].name = "c1" /\ log[k].restartCount = 4

\* c2 had no record, was created with count 0 and restarted with count 1.
C22_WitnessFromNothing ==
    \E i, j \in StatusIndices :
       /\ NextOlder(i, j)
       /\ podStatus[i].name = "c2" /\ podStatus[i].restartCount = 1
       /\ podStatus[j].id \notin ObservedIds /\ podStatus[j].restartCount = 0
       /\ \A m \in StatusIndices : m > j => podStatus[m].name # "c2"

(***************************************************************************)
(* Convergence.                                                            *)
(***************************************************************************)
\* The name of the container with that id: it was observed, or the running
\* sync created it.
NameOfId(id) ==
    IF \E i \in StatusIndices : podStatus[i].id = id
    THEN podStatus[CHOOSE i \in StatusIndices : podStatus[i].id = id].name
    ELSE IF \E k \in LogIndices : log[k].op = "Create" /\ log[k].id = id
    THEN log[CHOOSE k \in LogIndices : log[k].op = "Create" /\ log[k].id = id].name
    ELSE ""

\* The infra container and every workload container of the spec run.
AllRunning ==
    \A n \in {PodInfraContainerName} \cup {pod.containers[i].name : i \in SpecIndices} :
       \E id \in running : NameOfId(id) = n

\* The plan of the running sync asks for nothing.
PlanIsNoOp ==
    /\ ~plan.err
    /\ ~plan.StartInfraContainer
    /\ DOMAIN plan.ContainersToStart = {}
    /\ running \subseteq DOMAIN plan.ContainersToKeep

\* The pod is as specified and the running sync leaves it alone.
Settled ==
    /\ AllRunning
    /\ pc \notin {"plan"} => PlanIsNoOp
    /\ \A k \in LogIndices : log[k].op \notin {"Create", "Start", "StopCall"}

\* C24: for a pod with restart policy Always, when every call succeeds,
\* started containers stay running, no liveness probe fails and no backoff
\* holds a start back, repeated SyncPod calls on freshly observed status
\* eventually reach a state with the infra container and every workload
\* container running, and from then on every plan is a no-op and no
\* create, start or stop is issued.
C24_Converges == <>[]Settled

\* A later sync finds the pod settled after an earlier one created
\* containers for it.
C24_Witness ==
    /\ Settled /\ pc = "done" /\ nextId > 5
    /\ entry = "SyncPod" /\ faults = MaxFaults /\ pod.restartPolicy = "Always"

(***************************************************************************)
(* killContainer, step by step: the grace period, the pre-stop hook and    *)
(* its deadline, the Stop call and what follows it.  Time is in whole      *)
(* seconds since `start'.                                                  *)
(***************************************************************************)
GracePeriods == (0 - 1)..MaxGrace

\* The clock runs a second past the longest grace period.
MaxClock == MaxGrace + 1

\* gracePeriod as resolved at entry.
resolveGracePeriod(k) ==
    IF ~k.podKnown THEN minimumGracePeriodInSeconds
    ELSE IF ~k.deletionGrace.isNil THEN k.deletionGrace.v
    ELSE IF ~k.terminationGrace.isNil THEN k.terminationGrace.v
    ELSE minimumGracePeriodInSeconds

\* pod != nil && container != nil && Lifecycle != nil && PreStop != nil
hasPreStopHook(k) == k.podKnown /\ k.containerKnown /\ k.preStop

C4_timerFiredMutant(elapsed, gracePeriod) == TRUE

C25_timerFiredMutant(elapsed, gracePeriod) == FALSE

\* <-time.After(time.Duration(gracePeriod) * time.Second) is ready.
timerFired(elapsed, gracePeriod) == elapsed >= gracePeriod

C12_clampGracePeriodMutant(gracePeriod) == gracePeriod

\* The minimal shutdown window.
clampGracePeriod(gracePeriod) ==
    IF gracePeriod < minimumGracePeriodInSeconds
    THEN minimumGracePeriodInSeconds
    ELSE gracePeriod

KillFrame == UNCHANGED <<conv, rc, firstCall, inputVars, plan, pc, runVars>>

\* Entry: resolve the grace period, take `start', spawn the hook if any.
KillContainerEntry ==
    /\ kc.pc = "entry"
    /\ LET g == resolveGracePeriod(kc) IN
         kc' = IF hasPreStopHook(kc)
               THEN [kc EXCEPT !.gracePeriod = g, !.deadline = g,
                               !.hook = "running", !.pc = "waitHook"]
               ELSE [kc EXCEPT !.gracePeriod = g, !.deadline = g,
                               !.pc = "stop"]
    /\ KillFrame

\* A second passes while killContainer sits in the select.
Tick ==
    /\ kc.pc = "waitHook"
    /\ kc.now < MaxClock
    /\ kc' = [kc EXCEPT !.now = @ + 1]
    /\ KillFrame

\* The hook goroutine: runner.Run returns (with or without error) and
\* `done' is closed; this may happen after the select gave up on it.
HookCompletes ==
    /\ kc.hook = "running"
    /\ kc' = [kc EXCEPT !.hook = "done"]
    /\ KillFrame

\* select, case <-done.
SelectDone ==
    /\ kc.pc = "waitHook"
    /\ kc.hook = "done"
    /\ kc' = [kc EXCEPT !.selected = "done",
                        !.gracePeriod = @ - kc.now,
                        !.pc = "stop"]
    /\ KillFrame

\* select, case <-time.After(...).
SelectTimeout ==
    /\ kc.pc = "waitHook"
    /\ timerFired(kc.now, kc.gracePeriod)
    /\ kc' = [kc EXCEPT !.selected = "timeout",
                        !.gracePeriod = @ - kc.now,
                        !.pc = "stop"]
    /\ KillFrame

C13_killContainerErrorMutant(how) == IF how = "ok" THEN "" ELSE "stop failed"

\* What killContainer returns: nil ("") for a container that was not
\* running, else the error of StopContainer.
killContainerError(how) == IF how = "err" THEN "stop failed" ELSE ""

\* Clamp, client.StopContainer, and the tail of killContainer.
StopContainer ==
    /\ kc.pc = "stop"
    /\ \E how \in {"ok", "notRunning", "err"} :
         LET g == clampGracePeriod(kc.gracePeriod)
             recorded == how # "notRunning" /\ kc.hasRef
         IN kc' = [kc EXCEPT !.gracePeriod = g,
                             !.stopGrace = g,
                             !.stopAt = kc.now,
                             !.hookAtStop = kc.hook,
                             !.stopOutcome = how,
                             !.events = IF recorded THEN @ + 1 ELSE @,
                             !.hasRef = IF recorded THEN FALSE ELSE @,
                             !.err = killContainerError(how),
                             !.pc = "returned"]
    /\ KillFrame

InitKill ==
    /\ \E pk, ck, ps, ref \in BOOLEAN :
       \E dg, tg \in {GraceOf(v) : v \in GracePeriods} \cup {NilGrace} :
          kc = [NoKill EXCEPT !.pc = "entry", !.podKnown = pk,
                              !.containerKnown = ck, !.preStop = ps,
                              !.hasRef = ref, !.hadRef = ref,
                              !.deletionGrace = dg,
                              !.terminationGrace = tg]
    /\ entry = "killContainer"
    /\ pod = [restartPolicy |-> "Always", hostNetwork |-> FALSE,
              containers |-> <<Container("c1", 1)>>]
    /\ podKnown = kc.podKnown
    /\ podStatus = <<>>
    /\ liveness = EmptyMap
    /\ infraInspect = "other"
    /\ plan = NoPlan
    /\ pc = "killContainer"
    /\ running = {}
    /\ nextId = 1
    /\ log = <<>>
    /\ result = <<>>
    /\ reasonCache = EmptyMap
    /\ tasks = EmptyMap
    /\ containerResults = <<>>
    /\ networkContainer = 0
    /\ killQueue = <<>>
    /\ toStartLeft = {}
    /\ podInfraContainerID = 0
    /\ faults = 0
    /\ firstCall = NoCall
    /\ conv = NoConversion
    /\ rc = NoCache

NextKill ==
    \/ KillContainerEntry
    \/ Tick
    \/ HookCompletes
    \/ SelectDone
    \/ SelectTimeout
    \/ StopContainer

SpecKill == InitKill /\ [][NextKill]_vars

\* killContainer is scheduled, the clock advances, a ready case of the select
\* is taken and the daemon is called. Nothing makes the hook return.
SpecKillFair ==
    /\ InitKill /\ [][NextKill]_vars
    /\ WF_vars(KillContainerEntry)
    /\ WF_vars(Tick)
    /\ WF_vars(SelectDone)
    /\ WF_vars(SelectTimeout)
    /\ WF_vars(StopContainer)

\* C4: when the container declares a pre-stop hook and both the container
\* spec and the pod are known, Stop is issued only after the hook was run and
\* has completed, or the resolved grace period has expired since `start';
\* Stop is never issued while the hook runs and the deadline has not passed.
C4_StopAfterHookOrDeadline ==
    (kc.pc = "returned" /\ hasPreStopHook(kc)) =>
        /\ kc.hookAtStop # "none"
        /\ kc.hookAtStop = "done" \/ kc.stopAt >= resolveGracePeriod(kc)

\* The hook was still running when a positive grace period ran out, and Stop
\* was issued then.
C4_Witness ==
    /\ kc.pc = "returned" /\ hasPreStopHook(kc)
    /\ kc.hookAtStop = "running"
    /\ resolveGracePeriod(kc) > 0
    /\ kc.stopAt >= resolveGracePeriod(kc)

\* The hook completed before the deadline and Stop was issued at once.
C4_WitnessHookDone ==
    /\ kc.pc = "returned" /\ hasPreStopHook(kc)
    /\ kc.hookAtStop = "done"
    /\ kc.stopAt < resolveGracePeriod(kc)

\* The whole seconds the wait for the pre-stop hook took: 0 when none ran.
HookSeconds == IF hasPreStopHook(kc) THEN kc.stopAt ELSE 0

MaxOf(a, b) == IF a >= b THEN a ELSE b

\* C12: the grace value passed to the daemon's Stop is max(2, G - h), with G
\* the deletion grace period if set, else the termination grace period if
\* set, else 2 (2 too when the pod is unknown) and h the whole seconds the
\* pre-stop hook wait took; it is at least 2 for every G, zero and negative
\* ones included.
C12_StopGraceIsClampedRemainder ==
    kc.pc = "returned" =>
        /\ kc.stopGrace = MaxOf(minimumGracePeriodInSeconds,
                                resolveGracePeriod(kc) - HookSeconds)
        /\ kc.stopGrace >= minimumGracePeriodInSeconds

\* The hook used up the grace period: what is left is below the minimum and
\* Stop is given the minimum.
C12_Witness ==
    /\ kc.pc = "returned" /\ hasPreStopHook(kc)
    /\ kc.stopAt > 0
    /\ resolveGracePeriod(kc) - kc.stopAt < minimumGracePeriodInSeconds
    /\ kc.stopGrace = minimumGracePeriodInSeconds

\* A negative grace period, no hook.
C12_WitnessNegative ==
    /\ kc.pc = "returned" /\ ~hasPreStopHook(kc)
    /\ resolveGracePeriod(kc) < 0

\* The remainder of the grace period is passed on as it is.
C12_WitnessRemainder ==
    /\ kc.pc = "returned" /\ hasPreStopHook(kc)
    /\ kc.stopAt > 0
    /\ kc.stopGrace = resolveGracePeriod(kc) - kc.stopAt
    /\ kc.stopGrace > minimumGracePeriodInSeconds

\* C13: killContainer returns no error when the daemon's Stop reports that
\* the container is not running, the daemon's error for every other failure
\* of Stop, and nil when Stop succeeds.
C13_NotRunningIsNoError ==
    kc.pc = "returned" =>
        /\ kc.stopOutcome = "notRunning" => kc.err = ""
        /\ kc.stopOutcome = "ok" => kc.err = ""
        /\ kc.stopOutcome = "err" => kc.err # ""

\* Stop found the container not running and killContainer returned nil.
C13_Witness ==
    kc.pc = "returned" /\ kc.stopOutcome = "notRunning" /\ kc.err = ""

\* C14: after killContainer of a container that had an entry in the
\* container-ref map, a Killing event was emitted for it and the map holds
\* no entry for it any more, whether Stop succeeded, found the container not
\* running or failed otherwise.
C14_KillEmitsEventAndClearsRef ==
    (kc.pc = "returned" /\ kc.hadRef) => (kc.events = 1 /\ ~kc.hasRef)

\* C14 but for a Stop that finds the container not running.
C14_EventAndClearUnlessNotRunning ==
    (kc.pc = "returned" /\ kc.hadRef /\ kc.stopOutcome # "notRunning") =>
        (kc.events = 1 /\ ~kc.hasRef)

\* client.StopContainer was called.
StopCalled == kc.stopOutcome # "none"

\* C25: killContainer always reaches the daemon's Stop, also when the
\* pre-stop hook never returns: the select then ends by the timer of the
\* resolved grace period and Stop is called while the hook is still running.
C25_StopIsAlwaysReached ==
    <>(StopCalled /\ (kc.hookAtStop = "running" => kc.selected = "timeout"))

\* Stop was called at the expiry of the grace period with the hook still
\* running, and killContainer returned without it.
C25_Witness ==
    /\ kc.pc = "returned" /\ StopCalled
    /\ kc.hookAtStop = "running" /\ kc.hook = "running"
    /\ kc.selected = "timeout"
    /\ kc.deadline > 0 /\ kc.stopAt = kc.deadline


(***************************************************************************)
(* dm.reasonCache as it is built: a reasonInfoCache, a sync.RWMutex around *)
(* an lru.Cache of maxReasonCacheEntries entries.                          *)
(***************************************************************************)
\* The capacity the cache of the model is built with, in place of the 200
\* of maxReasonCacheEntries.
CacheCapacity == 2

\* The goroutines that use the cache at the same time: the pod workers in
\* SyncPod and the status conversions.
MaxGoroutines == 2

Goroutines == 1..MaxGoroutines

\* composeKey: "<pod_UID>_<container_name>", here for two pods.
composeKey(uid, name) == <<uid, name>>

CacheKeys == {composeKey(uid, name) : uid \in {1, 2}, name \in {"c1", "c2"}}

\* reasonInfo
ReasonInfo(reason, message) == [reason |-> reason, message |-> message]

ReasonInfos ==
    {ReasonInfo("ErrImagePull", "pull failed"),
     ReasonInfo("CrashLoopBackOff", "Back-off restarting failed container")}

\* lru.Cache: the list of its entries, the most recently used first.
lruIndex(ll, key) ==
    IF \E i \in 1..Len(ll) : ll[i].key = key
    THEN CHOOSE i \in 1..Len(ll) : ll[i].key = key
    ELSE 0

lruWithout(ll, key) == SelectSeq(ll, LAMBDA e : e.key # key)

\* lru.Cache.Add: an entry of the key is given the value and moved to the
\* front; else a new entry is pushed to the front and, the list being longer
\* than MaxEntries, the oldest entry is removed.
lruAdd(ll, maxEntries, key, value) ==
    LET pushed == <<[key |-> key, value |-> value]>> \o lruWithout(ll, key) IN
    IF Len(pushed) > maxEntries THEN SubSeq(pushed, 1, maxEntries) ELSE pushed

\* lru.Cache.Get: a hit moves the entry to the front.
lruGet(ll, key) ==
    LET i == lruIndex(ll, key) IN
    IF i = 0 THEN [cache |-> ll, ok |-> FALSE, value |-> ReasonInfo("", "")]
    ELSE [cache |-> <<ll[i]>> \o lruWithout(ll, key), ok |-> TRUE, value |-> ll[i].value]

\* lru.Cache.Remove
lruRemove(ll, key) == lruWithout(ll, key)

\* reasonInfoCache.Add, Remove and Get, inside the lock.
CacheAdd(ll, uid, name, reason, message) ==
    lruAdd(ll, CacheCapacity, composeKey(uid, name), ReasonInfo(reason, message))

C26_CacheRemoveMutant(ll, uid, name) == ll

CacheRemove(ll, uid, name) == lruRemove(ll, composeKey(uid, name))

CacheGet(ll, uid, name) ==
    LET r == lruGet(ll, composeKey(uid, name)) IN
    [cache |-> r.cache, found |-> r.ok,
     info |-> IF r.ok THEN r.value ELSE ReasonInfo("", "")]

CacheKeysOf(ll) == {ll[i].key : i \in 1..Len(ll)}

NotCached == [found |-> FALSE, info |-> ReasonInfo("", "")]

\* The latest call of the cache and what it gave.
NoCacheCall ==
    [op |-> "none", key |-> <<0, "">>, found |-> FALSE, info |-> ReasonInfo("", ""),
     dropped |-> {}, due |-> {}]

IdleGoroutine == [pc |-> "idle", op |-> "none", key |-> <<0, "">>,
                  info |-> ReasonInfo("", ""), writes |-> FALSE]

\* lru.New(maxReasonCacheEntries), nobody holding the lock. uses and expect
\* keep what the calls made so far ask of the cache: the keys in the order of
\* their latest use (oldest first), and for each key the latest value added
\* that was neither removed nor pushed out as the least recently used.
NewCache ==
    [cache |-> <<>>, uses |-> <<>>, expect |-> [k \in CacheKeys |-> NotCached],
     last |-> NoCacheCall, writer |-> 0, readers |-> {},
     g |-> [i \in Goroutines |-> IdleGoroutine]]

Used(uses, key) == SelectSeq(uses, LAMBDA k : k # key) \o <<key>>

\* The frame of the actions of the cache.
CacheFrame == UNCHANGED <<conv, kc, firstCall, inputVars, plan, pc, runVars>>

(***************************************************************************)
(* SpecCache: calls of Add, Get and Remove, one after the other.           *)
(***************************************************************************)
\* dm.reasonCache.Add(uid, name, reason, message)
AddCall(uid, name, info) ==
    LET key == composeKey(uid, name)
        usedKeys == {rc.uses[i] : i \in 1..Len(rc.uses)}
        due == IF key \notin usedKeys /\ Len(rc.uses) = CacheCapacity
               THEN {Head(rc.uses)} ELSE {}
        cache2 == CacheAdd(rc.cache, uid, name, info.reason, info.message)
    IN
    /\ rc' = [rc EXCEPT
                !.cache = cache2,
                !.uses = Used(SelectSeq(rc.uses, LAMBDA k : k \notin due), key),
                !.expect = [k \in CacheKeys |->
                              IF k = key THEN [found |-> TRUE, info |-> info]
                              ELSE IF k \in due THEN NotCached
                              ELSE rc.expect[k]],
                !.last = [op |-> "Add", key |-> key, found |-> TRUE, info |-> info,
                          dropped |-> CacheKeysOf(rc.cache) \ CacheKeysOf(cache2),
                          due |-> due]]
    /\ CacheFrame

\* dm.reasonCache.Get(uid, name)
GetCall(uid, name) ==
    LET key == composeKey(uid, name)
        r == CacheGet(rc.cache, uid, name)
    IN
    /\ rc' = [rc EXCEPT
                !.cache = r.cache,
                !.uses = IF rc.expect[key].found THEN Used(rc.uses, key) ELSE rc.uses,
                !.last = [op |-> "Get", key |-> key, found |-> r.found, info |-> r.info,
                          dropped |-> {}, due |-> {}]]
    /\ CacheFrame

\* dm.reasonCache.Remove(uid, name)
RemoveCall(uid, name) ==
    LET key == composeKey(uid, name)
        cache2 == CacheRemove(rc.cache, uid, name)
    IN
    /\ rc' = [rc EXCEPT
                !.cache = cache2,
                !.uses = SelectSeq(rc.uses, LAMBDA k : k # key),
                !.expect = [rc.expect EXCEPT ![key] = NotCached],
                !.last = [op |-> "Remove", key |-> key, found |-> FALSE,
                          info |-> ReasonInfo("", ""),
                          dropped |-> CacheKeysOf(rc.cache) \ CacheKeysOf(cache2),
                          due |-> {}]]
    /\ CacheFrame

\* A manager that is doing nothing but using its reason cache.
InitCache ==
    /\ rc = NewCache
    /\ entry = "reasonCache"
    /\ pod = [restartPolicy |-> "Always", hostNetwork |-> FALSE,
              containers |-> <<Container("c1", 0), Container("c2", 1)>>]
    /\ podKnown = TRUE
    /\ podStatus = <<>>
    /\ liveness = EmptyMap
    /\ infraInspect = "other"
    /\ plan = NoPlan
    /\ pc = "reasonCache"
    /\ running = {}
    /\ nextId = 1
    /\ log = <<>>
    /\ result = <<>>
    /\ reasonCache = EmptyMap
    /\ tasks = EmptyMap
    /\ containerResults = <<>>
    /\ networkContainer = 0
    /\ killQueue = <<>>
    /\ toStartLeft = {}
    /\ podInfraContainerID = 0
    /\ faults = 0
    /\ kc = NoKill
    /\ firstCall = NoCall
    /\ conv = NoConversion

NextCache ==
    \/ \E uid \in {1, 2}, name \in {"c1", "c2"}, info \in ReasonInfos : AddCall(uid, name, info)
    \/ \E uid \in {1, 2}, name \in {"c1", "c2"} : GetCall(uid, name)
    \/ \E uid \in {1, 2}, name \in {"c1", "c2"} : RemoveCall(uid, name)

SpecCache == InitCache /\ [][NextCache]_vars

\* What a Get of the key would find now.
Cached(key) ==
    LET i == lruIndex(rc.cache, key) IN
    IF i = 0 THEN NotCached ELSE [found |-> TRUE, info |-> rc.cache[i].value]

\* C26: the reason cache is a bounded LRU: after any sequence of Add, Get
\* and Remove it holds at most its capacity of entries; a Get returns the
\* value of the latest Add of its key unless the key was removed or pushed
\* out since; after a Remove the key is not found; and an Add drops a key
\* only when the cache is full and the added key is new, and then exactly
\* the least recently used one.
C26_BoundedLru ==
    /\ Len(rc.cache) <= CacheCapacity
    /\ \A k \in CacheKeys : Cached(k) = rc.expect[k]
    /\ rc.last.op = "Get" =>
          /\ rc.last.found = rc.expect[rc.last.key].found
          /\ rc.last.info = rc.expect[rc.last.key].info
    /\ rc.last.op = "Remove" => ~Cached(rc.last.key).found
    /\ rc.last.op = "Add" => rc.last.dropped = rc.last.due

\* An Add into the full cache pushed out the key that a Get had not
\* refreshed, and kept the one it had.
C26_Witness ==
    /\ rc.last.op = "Add"
    /\ rc.last.dropped = {composeKey(1, "c2")}
    /\ Len(rc.cache) = CacheCapacity
    /\ Cached(composeKey(1, "c1")).found
    /\ rc.cache[Len(rc.cache)].key = composeKey(1, "c1")

(***************************************************************************)
(* SpecCacheLocks: goroutines calling Add, Get and Remove at the same      *)
(* time. Each call takes the lock its method takes, runs the lru.Cache     *)
(* method and releases the lock.                                           *)
(***************************************************************************)
\* Whether the lru.Cache method of the call changes the list: Add always,
\* Remove and Get (which moves the entry to the front) when the key is there.
ModifiesList(ll, op, key) == op = "Add" \/ lruIndex(ll, key) # 0

\* sc.lock.Lock() for Add and Remove, sc.lock.RLock() for Get.
LockFor(op) == IF op = "Get" THEN "RLock" ELSE "Lock"

\* sync.RWMutex: Lock waits until nobody holds the lock, RLock until no
\* writer holds it.
CanTake(mode) ==
    IF mode = "Lock" THEN rc.writer = 0 /\ rc.readers = {} ELSE rc.writer = 0

\* The goroutine calls a method of the cache and gets the lock.
TakeLock(g) ==
    /\ rc.g[g].pc = "idle"
    /\ \E op \in {"Add", "Get", "Remove"}, key \in CacheKeys :
         /\ CanTake(LockFor(op))
         /\ rc' = [rc EXCEPT
                     !.writer = IF LockFor(op) = "Lock" THEN g ELSE @,
                     !.readers = IF LockFor(op) = "RLock" THEN @ \cup {g} ELSE @,
                     !.g[g] = [pc |-> "locked", op |-> op, key |-> key,
                               info |-> ReasonInfo("ErrImagePull", "pull failed"),
                               writes |-> FALSE]]
    /\ CacheFrame

\* The goroutine enters the method of lru.Cache.
EnterLru(g) ==
    /\ rc.g[g].pc = "locked"
    /\ rc' = [rc EXCEPT
                !.g[g].pc = "inLru",
                !.g[g].writes = ModifiesList(rc.cache, rc.g[g].op, rc.g[g].key)]
    /\ CacheFrame

\* The list as the method alone would leave it.
LruResult(ll, call) ==
    IF call.op = "Add" THEN lruAdd(ll, CacheCapacity, call.key, call.info)
    ELSE IF call.op = "Remove" THEN lruRemove(ll, call.key)
    ELSE lruGet(ll, call.key).cache

\* Another goroutine is changing the list while g does.
Racing(g) ==
    /\ rc.g[g].writes
    /\ \E h \in Goroutines \ {g} : rc.g[h].pc = "inLru" /\ rc.g[h].writes

\* The method returns. Two goroutines relinking the list at once is a data
\* race: the list may end as this call would leave it, as it was, or
\* without the entry.
LeaveLru(g) ==
    /\ rc.g[g].pc = "inLru"
    /\ LET own == LruResult(rc.cache, rc.g[g]) IN
       \E after \in (IF Racing(g)
                     THEN {own, rc.cache, lruWithout(rc.cache, rc.g[g].key)}
                     ELSE {own}) :
          rc' = [rc EXCEPT !.cache = after, !.g[g].pc = "unlock"]
    /\ CacheFrame

\* defer sc.lock.Unlock() / RUnlock()
ReleaseLock(g) ==
    /\ rc.g[g].pc = "unlock"
    /\ rc' = [rc EXCEPT
                !.writer = IF @ = g THEN 0 ELSE @,
                !.readers = @ \ {g},
                !.g[g] = IdleGoroutine]
    /\ CacheFrame

NextCacheLocks ==
    \E g \in Goroutines : TakeLock(g) \/ EnterLru(g) \/ LeaveLru(g) \/ ReleaseLock(g)

SpecCacheLocks == InitCache /\ [][NextCacheLocks]_vars

\* The goroutines inside a method of lru.Cache that changes the list.
Modifiers == {g \in Goroutines : rc.g[g].pc = "inLru" /\ rc.g[g].writes}

\* C27: the operations of the reason cache are safe under concurrent
\* readers and a single writer: no two operations that modify the LRU
\* structure, the recency update of a Get included, run at the same time.
C27_OneModifierAtATime == Cardinality(Modifiers) <= 1

\* What the locks do give: Add and Remove run alone; only Gets overlap.
C27_WritersRunAlone ==
    \A g \in Modifiers :
       rc.g[g].op # "Get" => \A h \in Goroutines \ {g} : rc.g[h].pc \notin {"locked", "inLru", "unlock"}

(***************************************************************************)
(* SpecInspect: inspectContainer on every answer of the daemon.            *)
(***************************************************************************)

\* Times are seconds; 0 is the zero time (time.Time.IsZero).
\* What the daemon answers to InspectContainer: its error, a name that does
\* not parse, or the container's state. terminationLog is what becomes of
\* the termination message path of the labels: there is none, it is not
\* among the volumes, its file reads, or its file does not read.
DaemonAnswers ==
    [answer : {"ok", "err", "badName"}, name : {PodInfraContainerName, "c1"},
     running : BOOLEAN, exitCode : {0, 1}, oomKilled : BOOLEAN,
     created : {5}, startedAt : {0, 6}, finishedAt : {0, 7},
     error : {"", "exec format error"},
     terminationLog : {"none", "unmounted", "read", "unreadable"}]

\* C29's mutant of exitReason: a failed start is taken for an exit.
C29_exitReasonMutant(state) ==
    IF state.oomKilled THEN "OOMKilled"
    ELSE IF state.exitCode = 0 THEN "Completed"
    ELSE "Error"

\* The reason of a container that exited or failed to start.
exitReason(state) ==
    IF state.oomKilled THEN "OOMKilled"
    ELSE IF state.exitCode = 0 THEN "Completed"
    ELSE IF state.finishedAt # 0 THEN "Error"
    ELSE "ContainerCannotRun"

\* The message: State.Error, unless the termination log is mounted.
exitMessage(state) ==
    IF state.terminationLog = "read" THEN "termination log"
    ELSE IF state.terminationLog = "unreadable" THEN "Error on reading termination-log"
    ELSE state.error

C35_hasExitedMutant(state) == state.finishedAt # 0

\* if !iResult.State.FinishedAt.IsZero() || iResult.State.ExitCode != 0
hasExited(state) == state.finishedAt # 0 \/ state.exitCode # 0

\* inspectContainer: the status, the pod IP and the error.
inspectContainer(iResult) ==
    LET none == [err |-> "", ip |-> "", name |-> "", state |-> "", reason |-> "",
                 message |-> "", exitCode |-> 0, createdAt |-> 0,
                 startedAt |-> 0, finishedAt |-> 0]
        status == [none EXCEPT !.name = iResult.name,
                               !.exitCode = iResult.exitCode,
                               !.createdAt = iResult.created]
        reason == exitReason(iResult)
        cannotRun == reason = "ContainerCannotRun"
    IN
    IF iResult.answer = "err" THEN [none EXCEPT !.err = "inspect"]
    ELSE IF iResult.answer = "badName" THEN [none EXCEPT !.err = "Unable to parse docker name"]
    ELSE IF iResult.running
    THEN [status EXCEPT !.state = "Running", !.startedAt = iResult.startedAt,
                        !.ip = IF iResult.name = PodInfraContainerName
                               THEN "pod ip" ELSE ""]
    ELSE IF hasExited(iResult)
    THEN [status EXCEPT
            !.state = "Exited",
            !.reason = reason,
            !.message = exitMessage(iResult),
            !.startedAt = IF cannotRun THEN iResult.created ELSE iResult.startedAt,
            !.finishedAt = IF cannotRun THEN iResult.created ELSE iResult.finishedAt]
    ELSE [status EXCEPT !.state = "Unknown"]

\* Everything of the manager that a status call leaves alone.
StatusCallFrame == UNCHANGED <<rc, kc, firstCall, inputVars, plan, pc, runVars>>

\* The call returns.
InspectContainerCall ==
    /\ conv.fn = "inspectContainer"
    /\ ~conv.returned
    /\ conv' = [conv EXCEPT !.returned = TRUE, !.status = inspectContainer(conv.iResult)]
    /\ StatusCallFrame

InitInspect ==
    /\ \E iResult \in DaemonAnswers :
          conv = [fn |-> "inspectContainer", iResult |-> iResult,
                  returned |-> FALSE, status |-> inspectContainer([iResult EXCEPT !.answer = "err"])]
    /\ rc = NoCache
    /\ kc = NoKill
    /\ firstCall = NoCall
    /\ entry = "inspectContainer"
    /\ pod = [restartPolicy |-> "Always", hostNetwork |-> FALSE,
              containers |-> <<Container("c1", 0)>>]
    /\ podKnown = TRUE
    /\ podStatus = <<>>
    /\ liveness = EmptyMap
    /\ infraInspect = "other"
    /\ plan = NoPlan
    /\ pc = "inspectContainer"
    /\ running = {}
    /\ nextId = 1
    /\ log = <<>>
    /\ result = <<>>
    /\ reasonCache = EmptyMap
    /\ tasks = EmptyMap
    /\ containerResults = <<>>
    /\ networkContainer = 0
    /\ killQueue = <<>>
    /\ toStartLeft = {}
    /\ podInfraContainerID = 0
    /\ faults = 0

NextInspect == InspectContainerCall

SpecInspect == InitInspect /\ [][NextInspect]_vars

\* inspectContainer returned a status for a container that is not running.
InspectedStopped ==
    /\ conv.fn = "inspectContainer"
    /\ conv.returned
    /\ conv.status.err = ""
    /\ ~conv.iResult.running

\* The daemon says the container ended with an error and never finished.
FailedToStart == conv.iResult.exitCode # 0 /\ conv.iResult.finishedAt = 0

\* C29 as stated: every non-running container with exitCode # 0 and a zero
\* finishedAt is reported Exited with reason ContainerCannotRun and
\* startedAt = finishedAt = createdAt, whatever the other fields of the
\* daemon's state, oomKilled included.
C29_CannotRunWhateverOomKilled ==
    (InspectedStopped /\ FailedToStart) =>
        /\ conv.status.state = "Exited"
        /\ conv.status.reason = "ContainerCannotRun"
        /\ conv.status.startedAt = conv.iResult.created
        /\ conv.status.finishedAt = conv.iResult.created

\* C29: every non-running container with exitCode # 0 and a zero finishedAt
\* is reported Exited; when oomKilled is not set its reason is
\* ContainerCannotRun and startedAt = finishedAt = createdAt, whatever the
\* other fields; when oomKilled is set its reason is OOMKilled and its times
\* are the daemon's.
C29_CannotRunUnlessOomKilled ==
    (InspectedStopped /\ FailedToStart) =>
        /\ conv.status.state = "Exited"
        /\ IF conv.iResult.oomKilled
           THEN /\ conv.status.reason = "OOMKilled"
                /\ conv.status.startedAt = conv.iResult.startedAt
                /\ conv.status.finishedAt = conv.iResult.finishedAt
           ELSE /\ conv.status.reason = "ContainerCannotRun"
                /\ conv.status.startedAt = conv.iResult.created
                /\ conv.status.finishedAt = conv.iResult.created

C29_Witness ==
    /\ InspectedStopped /\ FailedToStart
    /\ ~conv.iResult.oomKilled
    /\ conv.iResult.startedAt # conv.iResult.created
    /\ conv.status.reason = "ContainerCannotRun"

\* The case the statement gets wrong is there too.
C29_WitnessOomKilled ==
    /\ InspectedStopped /\ FailedToStart
    /\ conv.iResult.oomKilled
    /\ conv.status.reason = "OOMKilled"
    /\ conv.status.finishedAt = 0

(***************************************************************************)
(* SpecConvert: ConvertPodStatusToAPIPodStatus on a pod, the records       *)
(* observed of it (newest first) and the reason cache.                     *)
(***************************************************************************)

\* api.ContainerState: Running, Terminated or Waiting ("": none is set);
\* from is the id of the record the state was made of (0: of none).
ContainerState(kind, from, exitCode, reason, message) ==
    [kind |-> kind, from |-> from, exitCode |-> exitCode,
     reason |-> reason, message |-> message]

NoState == ContainerState("", 0, 0, "", "")

Waiting(reason, message) == ContainerState("Waiting", 0, 0, reason, message)

\* A record as an API container status: a running container is Running, an
\* exited one Terminated, any other Waiting without a reason.
containerStatusToAPIContainerStatus(containerStatus) ==
    [name |-> containerStatus.name,
     restartCount |-> containerStatus.restartCount,
     state |-> IF containerStatus.state = "Running"
               THEN ContainerState("Running", containerStatus.id, 0, "", "")
               ELSE IF containerStatus.state = "Exited"
               THEN ContainerState("Terminated", containerStatus.id,
                                   containerStatus.exitCode, "", "")
               ELSE Waiting("", ""),
     lastTerminationState |-> NoState]

\* The records of the container of that name, in the order observed.
RecordsOf(statuses, name) ==
    LET ofName(containerStatus) == containerStatus.name = name IN
    SelectSeq(statuses, ofName)

\* The first loop: the first record of a name is its status, the second its
\* last termination state, any later one is skipped.
StatusOfRecords(records) ==
    [containerStatusToAPIContainerStatus(records[1]) EXCEPT
        !.lastTerminationState =
            IF Len(records) >= 2
            THEN containerStatusToAPIContainerStatus(records[2]).state
            ELSE NoState]

\* The reasons of a failed image pull.
ImagePullReasons ==
    {"ImagePullBackOff", "ImageInspectError", "ErrImagePull", "ErrImageNeverPull"}

\* The test of the second loop on a container that has records: the cache
\* alone decides, the state of the container is not looked at.
InBackOff(containerStatus, reasonInfo) ==
    /\ reasonInfo.found
    /\ reasonInfo.reason = "CrashLoopBackOff"

\* The second loop on a container that has records.
FoundStatus(containerStatus, reasonInfo) ==
    IF InBackOff(containerStatus, reasonInfo)
    THEN [containerStatus EXCEPT
            !.lastTerminationState = containerStatus.state,
            !.state = Waiting(reasonInfo.reason, reasonInfo.message)]
    ELSE containerStatus

\* The second loop on a container without records; oldStatus is its entry
\* in pod.Status.ContainerStatuses (found: there is one).
MissingStatus(name, oldStatus, reasonInfo) ==
    [name |-> name,
     restartCount |-> IF oldStatus.found THEN oldStatus.restartCount ELSE 0,
     lastTerminationState |->
        IF oldStatus.found THEN oldStatus.lastTerminationState ELSE NoState,
     state |-> IF ~reasonInfo.found
               THEN Waiting("ContainerCreating", "Image is ready, container is creating")
               ELSE IF reasonInfo.reason \in ImagePullReasons THEN Waiting("", "")
               ELSE IF reasonInfo.reason = "RunContainerError" THEN Waiting("", "")
               ELSE NoState]

\* The third loop: a waiting container gets the reason that is cached.
FillReason(containerStatus, reasonInfo) ==
    IF containerStatus.state.kind = "Waiting" /\ reasonInfo.found
    THEN [containerStatus EXCEPT !.state.reason = reasonInfo.reason,
                                 !.state.message = reasonInfo.message]
    ELSE containerStatus

\* The API status of one container of the pod spec.
APIContainerStatus(name, statuses, oldStatus, reasonInfo) ==
    LET records == RecordsOf(statuses, name) IN
    FillReason(IF records # <<>>
               THEN FoundStatus(StatusOfRecords(records), reasonInfo)
               ELSE MissingStatus(name, oldStatus, reasonInfo),
               reasonInfo)

\* kubetypes.SortedContainerStatuses: by name.
SortedContainerStatuses(statuses) ==
    LET has(name) == \E containerStatus \in statuses : containerStatus.name = name
        byName == SelectSeq(<<PodInfraContainerName, "c1", "c2">>, has)
    IN [i \in 1..Len(byName) |->
          CHOOSE containerStatus \in statuses : containerStatus.name = byName[i]]

\* ConvertPodStatusToAPIPodStatus: the container statuses of the API status.
ConvertPodStatusToAPIPodStatus(p, statuses, oldStatuses, cache) ==
    SortedContainerStatuses(
        {APIContainerStatus(p.containers[i].name, statuses,
                            oldStatuses[p.containers[i].name],
                            cache[p.containers[i].name])
            : i \in 1..Len(p.containers)})

\* pod.Status.ContainerStatuses: what the API server has of a container.
OldStatuses ==
    {[found |-> FALSE, restartCount |-> 0, lastTerminationState |-> NoState],
     [found |-> TRUE, restartCount |-> 2,
      lastTerminationState |-> ContainerState("Terminated", 0, 1, "Error", "")]}

\* What the reason cache holds of a container at the time of a conversion.
ConvertedEntries ==
    {NoEntry,
     [found |-> TRUE, reason |-> "CrashLoopBackOff",
      message |-> "Back-off restarting failed container"],
     [found |-> TRUE, reason |-> "ErrImagePull", message |-> "pull failed"],
     [found |-> TRUE, reason |-> "RunContainerError", message |-> "start failed"],
     [found |-> TRUE, reason |-> "VerifyNonRootError", message |-> "image will run as root"]}

\* The call returns.
ConvertCall ==
    /\ conv.fn = "ConvertPodStatusToAPIPodStatus"
    /\ ~conv.returned
    /\ conv' = [conv EXCEPT
                  !.returned = TRUE,
                  !.apiPodStatus = ConvertPodStatusToAPIPodStatus(
                                      pod, podStatus, conv.oldStatuses, reasonCache)]
    /\ StatusCallFrame

InitConvert ==
    /\ \E old \in OldStatuses :
          conv = [fn |-> "ConvertPodStatusToAPIPodStatus",
                  oldStatuses |-> [n \in ContainerNames |-> old],
                  returned |-> FALSE, apiPodStatus |-> <<>>]
    /\ rc = NoCache
    /\ kc = NoKill
    /\ firstCall = NoCall
    /\ entry = "ConvertPodStatusToAPIPodStatus"
    /\ pod \in [restartPolicy : {"Always"}, hostNetwork : {FALSE}, ports : {0},
                containers : SpecContainers]
    /\ podKnown = TRUE
    /\ podStatus \in UNION {StatusLists(n) : n \in 0..MaxStatuses}
    /\ liveness = EmptyMap
    /\ infraInspect = "other"
    /\ plan = NoPlan
    /\ pc = "ConvertPodStatusToAPIPodStatus"
    /\ running = {}
    /\ nextId = 1
    /\ log = <<>>
    /\ result = <<>>
    /\ \E e1, e2 \in ConvertedEntries :
          reasonCache = [n \in ContainerNames |->
                           IF n = "c1" THEN e1 ELSE IF n = "c2" THEN e2 ELSE NoEntry]
    /\ tasks = EmptyMap
    /\ containerResults = <<>>
    /\ networkContainer = 0
    /\ killQueue = <<>>
    /\ toStartLeft = {}
    /\ podInfraContainerID = 0
    /\ faults = 0

NextConvert == ConvertCall

SpecConvert == InitConvert /\ [][NextConvert]_vars

Converted == conv.fn = "ConvertPodStatusToAPIPodStatus" /\ conv.returned

\* The names of the pod spec that have a record.
RecordedNames ==
    {pod.containers[i].name : i \in 1..Len(pod.containers)}
        \cap {podStatus[i].name : i \in 1..Len(podStatus)}

NewestRecord(name) == RecordsOf(podStatus, name)[1]

\* The API status the conversion gave the container of that name.
ConvertedStatus(name) ==
    LET i == CHOOSE i \in 1..Len(conv.apiPodStatus) : conv.apiPodStatus[i].name = name
    IN conv.apiPodStatus[i]

CachedBackOff(name) ==
    reasonCache[name].found /\ reasonCache[name].reason = "CrashLoopBackOff"

\* The first half of C30: a dead newest record with a cached
\* CrashLoopBackOff gives its state to LastTerminationState, and the
\* container is Waiting with the cached reason and message.
DeadInBackOffIsWaiting ==
    Converted =>
      \A name \in RecordedNames :
         (NewestRecord(name).state = "Exited" /\ CachedBackOff(name)) =>
            /\ ConvertedStatus(name).lastTerminationState =
                  containerStatusToAPIContainerStatus(NewestRecord(name)).state
            /\ ConvertedStatus(name).state =
                  Waiting(reasonCache[name].reason, reasonCache[name].message)

\* The second half of C30: a running newest record is not made Waiting.
RunningIsNotWaiting ==
    Converted =>
      \A name \in RecordedNames :
         NewestRecord(name).state = "Running" =>
            ConvertedStatus(name).state.kind # "Waiting"

\* C30: in the API status conversion, a spec container whose newest record
\* is dead and whose cache entry is CrashLoopBackOff gets that record's
\* state as LastTerminationState and is Waiting with the cached reason and
\* message; a container whose newest record is running is not turned into
\* Waiting.
C30_BackOffShownForDeadOnly == DeadInBackOffIsWaiting /\ RunningIsNotWaiting

\* A running newest record stays Running when no back-off is cached.
C30_RunningStaysWithoutBackOff ==
    Converted =>
      \A name \in RecordedNames :
         (NewestRecord(name).state = "Running" /\ ~CachedBackOff(name)) =>
            ConvertedStatus(name).state.kind = "Running"

\* A dead container in back-off was converted, an older record behind it.
C30_WitnessDead ==
    /\ Converted
    /\ Len(RecordsOf(podStatus, "c1")) = 2
    /\ NewestRecord("c1").state = "Exited"
    /\ CachedBackOff("c1")
    /\ ConvertedStatus("c1").state.kind = "Waiting"
    /\ ConvertedStatus("c1").lastTerminationState.from = NewestRecord("c1").id

\* A running container with a back-off cached was converted.
C30_WitnessRunning ==
    /\ Converted
    /\ "c1" \in RecordedNames
    /\ NewestRecord("c1").state = "Running"
    /\ CachedBackOff("c1")
    /\ ConvertedStatus("c1").state.kind = "Waiting"
    /\ ConvertedStatus("c1").lastTerminationState.kind = "Running"

(***************************************************************************)
(* SpecLabels: KillContainerInPod up to its call of killContainer, with    *)
(* containerAndPodFromLabels on every answer of the daemon.                *)
(***************************************************************************)

\* What InspectContainer hands to containerAndPodFromLabels. isNil says
\* which pointer is nil: the result itself, its Config, the Labels map, or
\* none. The pod label is absent, decodes or does not; the container name
\* label names a container of the decoded pod or not; the grace period
\* label is absent, a number or not a number.
InspectResults ==
    [isNil : {"inspect", "Config", "Labels"}, podLabel : {"absent"},
     namesContainer : {FALSE}, graceLabel : {"absent"}]
    \cup [isNil : {"none"}, podLabel : {"absent", "decodes", "undecodable"},
          namesContainer : BOOLEAN, graceLabel : {"absent", "number", "text"}]

\* A result of containerAndPodFromLabels; panicked: the call never returned,
\* a nil pointer was followed.
LabelsResult(podOut, containerOut, err, panicked) ==
    [pod |-> podOut, container |-> containerOut, err |-> err, panicked |-> panicked]

\* The labels read by containerAndPodFromLabels: a nil map reads as empty.
labelsOf(inspect) ==
    IF inspect.isNil = "Labels"
    THEN [inspect EXCEPT !.podLabel = "absent", !.graceLabel = "absent"]
    ELSE inspect

\* The body after the guard: the pod and the container of the pod label,
\* else a pod that carries the grace period label only.
podFromLabels(labels) ==
    LET decoded == labels.podLabel = "decodes"
        err == IF labels.podLabel = "absent" THEN ""
               ELSE IF ~decoded THEN "decode"
               ELSE IF ~labels.namesContainer THEN "unable to find container"
               ELSE ""
    IN LabelsResult(
         IF decoded THEN "stored"
         ELSE IF labels.graceLabel = "number" THEN "gracePeriodOnly" ELSE "nil",
         IF decoded /\ labels.namesContainer THEN "stored" ELSE "nil",
         err, FALSE)

\* inspect == nil && inspect.Config == nil && inspect.Config.Labels == nil,
\* evaluated left to right: "panic" when a nil pointer is followed.
noLabelsGuard(inspect) ==
    IF inspect.isNil = "inspect" THEN "panic"   \* inspect.Config of a nil inspect
    ELSE "false"                                \* the first conjunct decides

containerAndPodFromLabels(inspect) ==
    LET guard == noLabelsGuard(inspect) IN
    IF guard = "panic" THEN LabelsResult("nil", "nil", "", TRUE)
    ELSE IF guard = "true"
    THEN LabelsResult("nil", "nil", "no pod information labels on Docker container", FALSE)
    ELSE IF inspect.isNil = "Config"
    THEN LabelsResult("nil", "nil", "", TRUE)   \* labels := inspect.Config.Labels
    ELSE podFromLabels(labelsOf(inspect))

\* The calls of KillContainerInPod: whether the id is empty, whether the
\* container and the pod are given, what GetPods finds for an empty id
\* ("err": it fails), and what the daemon answers to the inspect.
KillInPodCalls ==
    [idEmpty : BOOLEAN, container : BOOLEAN, pod : BOOLEAN,
     getPods : {"err", "found", "notFound"},
     inspectErr : BOOLEAN, inspect : InspectResults]

\* KillContainerInPod up to the call of killContainer: how it ends ("panic",
\* "err": it returned an error, "killContainer": it went on to kill) and the
\* container and pod it passes to killContainer.
KillContainerInPod(call) ==
    LET given == [ends |-> "killContainer",
                  container |-> IF call.container THEN "given" ELSE "nil",
                  pod |-> IF call.pod THEN "given" ELSE "nil",
                  inspected |-> FALSE,
                  labels |-> LabelsResult("nil", "nil", "", FALSE)]
        stored == containerAndPodFromLabels(call.inspect)
    IN
    IF call.idEmpty
    THEN IF call.getPods = "err" THEN [given EXCEPT !.ends = "err"]
         ELSE IF ~call.pod \/ ~call.container THEN [given EXCEPT !.ends = "panic"]
         ELSE IF call.getPods = "notFound" THEN [given EXCEPT !.ends = "err"]
         ELSE given
    ELSE IF ~call.container \/ ~call.pod
    THEN IF call.inspectErr THEN [given EXCEPT !.ends = "err"]
         ELSE [given EXCEPT
                 !.inspected = TRUE,
                 !.labels = stored,
                 !.ends = IF stored.panicked THEN "panic" ELSE "killContainer",
                 !.container = IF call.container THEN "given" ELSE stored.container,
                 !.pod = IF call.pod THEN "given" ELSE stored.pod]
    ELSE given

\* The call runs to its end.
KillContainerInPodCall ==
    /\ conv.fn = "KillContainerInPod"
    /\ ~conv.returned
    /\ conv' = [conv EXCEPT !.returned = TRUE, !.out = KillContainerInPod(conv.call)]
    /\ StatusCallFrame

InitLabels ==
    /\ \E call \in KillInPodCalls :
          conv = [fn |-> "KillContainerInPod", call |-> call, returned |-> FALSE,
                  out |-> KillContainerInPod([call EXCEPT !.idEmpty = TRUE, !.getPods = "err"])]
    /\ rc = NoCache
    /\ kc = NoKill
    /\ firstCall = NoCall
    /\ entry = "KillContainerInPod"
    /\ pod = [restartPolicy |-> "Always", hostNetwork |-> FALSE,
              containers |-> <<Container("c1", 0)>>]
    /\ pc = "KillContainerInPod"
    /\ podKnown = TRUE
    /\ podStatus = <<>>
    /\ liveness = EmptyMap
    /\ infraInspect = "other"
    /\ plan = NoPlan
    /\ running = {}
    /\ nextId = 1
    /\ log = <<>>
    /\ result = <<>>
    /\ reasonCache = EmptyMap
    /\ tasks = EmptyMap
    /\ containerResults = <<>>
    /\ networkContainer = 0
    /\ killQueue = <<>>
    /\ toStartLeft = {}
    /\ podInfraContainerID = 0
    /\ faults = 0

NextLabels == KillContainerInPodCall

SpecLabels == InitLabels /\ [][NextLabels]_vars

\* KillContainerInPod read the labels of an inspect result.
LabelsWereRead ==
    /\ conv.fn = "KillContainerInPod"
    /\ conv.returned
    /\ ~conv.call.idEmpty
    /\ ~conv.call.container \/ ~conv.call.pod
    /\ ~conv.call.inspectErr

\* C31: containerAndPodFromLabels reports "no pod info" (errNoPodOnContainer
\* with a nil pod and a nil container) whenever the inspect result, its
\* Config or its Labels is nil, and does not crash.
C31_NilMeansNoPodInfo ==
    (LabelsWereRead /\ conv.call.inspect.isNil # "none") =>
        conv.out.labels =
            LabelsResult("nil", "nil", "no pod information labels on Docker container", FALSE)

\* What the code does with a nil inspect result or a nil Config.
C31_WitnessPanic ==
    /\ LabelsWereRead
    /\ conv.call.inspect.isNil \in {"inspect", "Config"}
    /\ conv.out.ends = "panic"

\* What the code does with nil Labels: nothing is found and no error is given.
C31_WitnessNoError ==
    /\ LabelsWereRead
    /\ conv.call.inspect.isNil = "Labels"
    /\ conv.out.labels = LabelsResult("nil", "nil", "", FALSE)
    /\ conv.out.ends = "killContainer"

(***************************************************************************)
(* SpecPodIP: determineContainerIP as its two callers call it.             *)
(***************************************************************************)

\* The pod and its infra container at the time the IP is determined: who
\* asks, the pod's namespace and name, the id of the infra container,
\* whether the daemon reports NetworkSettings, whether the network plugin is
\* the default one, and what the plugin's Status answers.
IPQueries ==
    [caller : {"inspectContainer", "SyncPod"},
     namespace : {"default", "kube-system"}, name : {"web", "db"},
     infraId : {1, 2}, networkSettings : BOOLEAN,
     defaultPlugin : BOOLEAN, netStatus : {"err", "nil", "ip"}]

\* No call of networkPlugin.Status.
NoStatusCall == <<>>

\* determineContainerIP(podNamespace, podName, container): the address and
\* the arguments of the call to networkPlugin.Status, if it was made.
determineContainerIP(podNamespace, podName, container, defaultPlugin, netStatus) ==
    LET daemonIP == IF container.networkSettings THEN "daemon address" ELSE "" IN
    [status |-> IF defaultPlugin THEN NoStatusCall
                ELSE <<podNamespace, podName, container.id>>,
     ip |-> IF ~defaultPlugin /\ netStatus = "ip" THEN "plugin address" ELSE daemonIP]

\* The call as the caller writes it: inspectContainer passes (podNamespace,
\* podName), SyncPod passes (pod.Name, pod.Namespace).
determineContainerIPOf(q) ==
    LET container == [id |-> q.infraId, networkSettings |-> q.networkSettings] IN
    IF q.caller = "inspectContainer"
    THEN determineContainerIP(q.namespace, q.name, container, q.defaultPlugin, q.netStatus)
    ELSE determineContainerIP(q.name, q.namespace, container, q.defaultPlugin, q.netStatus)

DetermineContainerIPCall ==
    /\ conv.fn = "determineContainerIP"
    /\ ~conv.returned
    /\ conv' = [conv EXCEPT !.returned = TRUE, !.out = determineContainerIPOf(conv.query)]
    /\ StatusCallFrame

InitPodIP ==
    /\ \E q \in IPQueries :
          conv = [fn |-> "determineContainerIP", query |-> q, returned |-> FALSE,
                  out |-> [status |-> NoStatusCall, ip |-> ""]]
    /\ rc = NoCache
    /\ kc = NoKill
    /\ firstCall = NoCall
    /\ entry = "determineContainerIP"
    /\ pod = [restartPolicy |-> "Always", hostNetwork |-> FALSE,
              containers |-> <<Container("c1", 0)>>]
    /\ pc = "determineContainerIP"
    /\ podKnown = TRUE
    /\ podStatus = <<>>
    /\ liveness = EmptyMap
    /\ infraInspect = "other"
    /\ plan = NoPlan
    /\ running = {}
    /\ nextId = 1
    /\ log = <<>>
    /\ result = <<>>
    /\ reasonCache = EmptyMap
    /\ tasks = EmptyMap
    /\ containerResults = <<>>
    /\ networkContainer = 0
    /\ killQueue = <<>>
    /\ toStartLeft = {}
    /\ podInfraContainerID = 0
    /\ faults = 0

NextPodIP == DetermineContainerIPCall

SpecPodIP == InitPodIP /\ [][NextPodIP]_vars

IPDetermined == conv.fn = "determineContainerIP" /\ conv.returned

\* The address the claim asks for: the plugin's when it gives one.
PreferredIP ==
    IF ~conv.query.defaultPlugin /\ conv.query.netStatus = "ip" THEN "plugin address"
    ELSE IF conv.query.networkSettings THEN "daemon address" ELSE ""

\* C32: whenever the pod IP is determined, by GetPodStatus's inspection of
\* the running infra container or by SyncPod after the infra container is
\* created, a non-default plugin's Status is queried with the pod's
\* (namespace, name, infraId) in that order and its IP is preferred;
\* otherwise the daemon's address is used.
C32_StatusAskedByNamespaceThenName ==
    IPDetermined =>
        /\ conv.out.ip = PreferredIP
        /\ conv.out.status =
              IF conv.query.defaultPlugin THEN NoStatusCall
              ELSE <<conv.query.namespace, conv.query.name, conv.query.infraId>>

\* The inspection of GetPodStatus asks in the right order.
C32_InspectAsksInOrder ==
    (IPDetermined /\ conv.query.caller = "inspectContainer") =>
        /\ conv.out.ip = PreferredIP
        /\ conv.out.status =
              IF conv.query.defaultPlugin THEN NoStatusCall
              ELSE <<conv.query.namespace, conv.query.name, conv.query.infraId>>

\* SyncPod asked the plugin with the name in the place of the namespace.
C32_WitnessSwapped ==
    /\ IPDetermined
    /\ conv.query.caller = "SyncPod"
    /\ ~conv.query.defaultPlugin
    /\ conv.out.status = <<conv.query.name, conv.query.namespace, conv.query.infraId>>

(***************************************************************************)
(* The plan when the infra container is created.                           *)
(***************************************************************************)

\* The spec indices the plan keeps a container for.
KeptIndices == {plan.ContainersToKeep[id] : id \in DOMAIN plan.ContainersToKeep}

\* C33: when the plan creates the infra container, every running workload
\* container is in ContainersToStart if the restart policy is not Never
\* (Always and OnFailure alike) and in neither ContainersToStart nor
\* ContainersToKeep if it is Never; InfraChanged implies StartInfraContainer.
C33_RunningRestartWithInfra ==
    Planned =>
        /\ plan.StartInfraContainer =>
              \A i \in SpecIndices :
                 RunningWorkload(i) =>
                    IF pod.restartPolicy # "Never"
                    THEN i \in DOMAIN plan.ContainersToStart
                    ELSE /\ i \notin DOMAIN plan.ContainersToStart
                         /\ i \notin KeptIndices
                         /\ podStatus[StatusOf(i)].id \notin DOMAIN plan.ContainersToKeep
        /\ plan.InfraChanged => plan.StartInfraContainer

\* A changed infra container with a running workload container under
\* OnFailure: the container is to be started again.
C33_Witness ==
    /\ Planned /\ plan.InfraChanged /\ plan.StartInfraContainer
    /\ pod.restartPolicy = "OnFailure"
    /\ \E i \in SpecIndices :
          /\ RunningWorkload(i)
          /\ i \in DOMAIN plan.ContainersToStart
          /\ plan.ContainersToStart[i] = "infra"

\* The same under Never: the running container is neither started nor kept.
C33_WitnessNever ==
    /\ Planned /\ plan.StartInfraContainer
    /\ pod.restartPolicy = "Never"
    /\ \E i \in SpecIndices :
          RunningWorkload(i) /\ i \notin DOMAIN plan.ContainersToStart

(***************************************************************************)
(* The plan for a running container beside a stable infra container, and  *)
(* what SyncPod does to one that is unhealthy under RestartPolicy Never.   *)
(***************************************************************************)

SyncPlanned == entry = "SyncPod" /\ pc # "plan" /\ ~plan.err

\* The container of spec index i runs, its hash is not taken for changed,
\* and the plan keeps the infra container.
StableUnchanged(i) ==
    /\ ~plan.StartInfraContainer
    /\ RunningWorkload(i)
    /\ ~containerChanged(podStatus[StatusOf(i)].hash,
                         HashContainer(pod.containers[i].content))

LivenessOf(i) == liveness[podStatus[StatusOf(i)].id]

IdOf(i) == podStatus[StatusOf(i)].id

\* The plan's part of C34.
PlanByLiveness(i) ==
    IF LivenessOf(i) \in {"none", "Success"}
    THEN /\ IdOf(i) \in DOMAIN plan.ContainersToKeep
         /\ plan.ContainersToKeep[IdOf(i)] = i
         /\ i \notin DOMAIN plan.ContainersToStart
    ELSE IF pod.restartPolicy # "Never"
    THEN /\ i \in DOMAIN plan.ContainersToStart
         /\ IdOf(i) \notin DOMAIN plan.ContainersToKeep
    ELSE /\ i \notin DOMAIN plan.ContainersToStart
         /\ IdOf(i) \notin DOMAIN plan.ContainersToKeep

UnhealthyUnderNever(i) ==
    StableUnchanged(i) /\ LivenessOf(i) = "Failure" /\ pod.restartPolicy = "Never"

\* SyncPod called the kill of the container with that id, itself or through
\* the kill of the whole pod.
KillIssued(id) ==
    \E k \in LogIndices :
        log[k].op \in {"KillCall", "StopCall", "KillReturn"} /\ log[k].id = id

StartAttempted(i) == \E k \in LogIndices : log[k].op = "Attempt" /\ log[k].id = i

\* The plan of the sync that follows, on what GetPodStatus then observes.
FollowingPlan ==
    LET fresh == ContainerStatuses(podStatus, log, running)
        live == [id \in 1..(nextId - 1) |->
                    IF id \in DOMAIN liveness /\ id \in running
                    THEN liveness[id] ELSE "none"]
    IN computePodContainerChanges(pod, fresh, live, InspectOfInfra(fresh, log))

\* C34: a running workload container with a stable infra and an unchanged
\* hash is kept (mapped to its spec index) and not started when its liveness
\* result is absent or Success; is started and not kept when liveness failed
\* and the restart policy is not Never; is neither when liveness failed and
\* the policy is Never, so that SyncPod kills it and starts no replacement,
\* and the following sync, on the state observed after the kill, starts
\* none either.
C34_LivenessDecidesAndNeverIsKilled ==
    SyncPlanned =>
        \A i \in SpecIndices :
            /\ StableUnchanged(i) => PlanByLiveness(i)
            /\ (UnhealthyUnderNever(i) /\ pc = "done") =>
                  /\ KillIssued(IdOf(i))
                  /\ ~StartAttempted(i)
                  /\ i \notin DOMAIN FollowingPlan.ContainersToStart

\* C34 but for the kill: the plan, no replacement in this sync or the next,
\* and the kill whenever no kill before it failed.
C34_ButForEarlierKillFailure ==
    SyncPlanned =>
        \A i \in SpecIndices :
            /\ StableUnchanged(i) => PlanByLiveness(i)
            /\ (UnhealthyUnderNever(i) /\ pc = "done") =>
                  /\ ~StartAttempted(i)
                  /\ i \notin DOMAIN FollowingPlan.ContainersToStart
                  /\ (\A r \in ResultIndices :
                         result[r].action = "KillContainer" => result[r].error = "")
                       => KillIssued(IdOf(i))

\* SyncPod returned after the kill of another container failed: the
\* unhealthy container under Never was not killed.
C34_WitnessNotKilled ==
    /\ SyncPlanned /\ pc = "done"
    /\ \E i \in SpecIndices :
          /\ UnhealthyUnderNever(i)
          /\ ~KillIssued(IdOf(i))
          /\ IdOf(i) \in running

\* The unhealthy container under Never was killed and nothing was started.
C34_WitnessKilled ==
    /\ SyncPlanned /\ pc = "done"
    /\ \E i \in SpecIndices :
          /\ UnhealthyUnderNever(i)
          /\ KillIssued(IdOf(i))
          /\ IdOf(i) \notin running
          /\ ~StartAttempted(i)

(***************************************************************************)
(* The states inspectContainer tells apart.                                *)
(***************************************************************************)

Inspected == conv.fn = "inspectContainer" /\ conv.returned /\ conv.status.err = ""

\* The reason by precedence: OOMKilled, Completed, Error, ContainerCannotRun.
ReasonByPrecedence ==
    IF conv.iResult.oomKilled THEN "OOMKilled"
    ELSE IF conv.iResult.exitCode = 0 THEN "Completed"
    ELSE IF conv.iResult.finishedAt # 0 THEN "Error"
    ELSE "ContainerCannotRun"

\* C35: inspectContainer puts every state of the daemon in exactly one of
\* Running, Exited, Unknown: Running iff the daemon reports running;
\* otherwise Exited iff finishedAt is non-zero or exitCode # 0; otherwise
\* Unknown. The reason of Exited follows the precedence OOMKilled,
\* Completed (exitCode = 0), Error (finishedAt non-zero), ContainerCannotRun.
C35_RunningExitedOrUnknown ==
    Inspected =>
        /\ conv.status.state \in {"Running", "Exited", "Unknown"}
        /\ conv.status.state = "Running" <=> conv.iResult.running
        /\ conv.status.state = "Exited" <=>
              (~conv.iResult.running
               /\ (conv.iResult.finishedAt # 0 \/ conv.iResult.exitCode # 0))
        /\ conv.status.state = "Unknown" <=>
              (~conv.iResult.running
               /\ conv.iResult.finishedAt = 0 /\ conv.iResult.exitCode = 0)
        /\ conv.status.state = "Exited" => conv.status.reason = ReasonByPrecedence

\* A container that failed to start, no finish time, is Exited.
C35_Witness ==
    /\ Inspected
    /\ ~conv.iResult.running
    /\ conv.iResult.finishedAt = 0 /\ conv.iResult.exitCode # 0
    /\ conv.status.state = "Exited"
    /\ conv.status.reason = "ContainerCannotRun"

\* A container that neither runs nor ended is Unknown.
C35_WitnessUnknown ==
    /\ Inspected
    /\ ~conv.iResult.running
    /\ conv.iResult.oomKilled
    /\ conv.status.state = "Unknown"

(***************************************************************************)
(* When SyncPod creates an infra container.                                *)
(***************************************************************************)

\* SyncPod went to create an infra container: the call of the daemon, or
\* the result of createPodInfraContainer when it failed before that call.
InfraCreationTried ==
    \/ \E k \in LogIndices :
          log[k].op = "Create" /\ log[k].name = PodInfraContainerName
    \/ \E r \in ResultIndices :
          result[r].action = "StartContainer" /\ result[r].target = PodInfraContainerName

\* C36: SyncPod creates an infra container only when the plan has
\* StartInfraContainer and ContainersToStart is not empty; with
\* StartInfraContainer and an empty ContainersToStart it kills the whole pod
\* and creates no infra container, calls no SetUpPod and starts nothing.
C36_InfraOnlyForContainersToStart ==
    entry = "SyncPod" =>
        /\ InfraCreationTried =>
              plan.StartInfraContainer /\ DOMAIN plan.ContainersToStart # {}
        /\ (PastKillChoice /\ plan.StartInfraContainer
              /\ DOMAIN plan.ContainersToStart = {}) =>
                 /\ KillPodCalled
                 /\ NothingLaunched

\* SyncPod returned from a plan that creates the infra container but has
\* nothing to start: the pod was killed and nothing was created.
C36_Witness ==
    /\ entry = "SyncPod" /\ pc = "done" /\ ~plan.err
    /\ plan.StartInfraContainer
    /\ DOMAIN plan.ContainersToStart = {}
    /\ RunningIds(podStatus) # {}
    /\ KillPodCalled
    /\ ~InfraCreationTried

\* An infra container was created for containers to start.
C36_WitnessCreated ==
    /\ entry = "SyncPod"
    /\ plan.StartInfraContainer
    /\ \E k \in LogIndices :
          log[k].op = "Create" /\ log[k].name = PodInfraContainerName

(***************************************************************************)
(* SpecRun: runContainerInPod, step by step of what can fail.              *)
(***************************************************************************)

\* The steps of runContainerInPod that can fail, in the order of the code.
RunSteps ==
    <<"options", "create", "start", "postStart", "inspect", "pid",
      "cgroupName", "oomScore", "ndots">>

\* One call: the container (the infra container or a workload container,
\* with or without a post-start hook), the pod's network, the step that
\* fails ("none": none does) and how the kill after a failed post-start
\* hook goes.
RunCalls ==
    [infra : BOOLEAN, hostNetwork : BOOLEAN, postStartHook : BOOLEAN,
     symlinkFails : BOOLEAN, refFails : BOOLEAN,
     fails : {"none"} \cup {RunSteps[i] : i \in 1..Len(RunSteps)},
     kill : {"ok", "notRunning", "stopErr"}]

\* Whether the call comes to that step at all.
stepTaken(call, step) ==
    IF step = "postStart" THEN call.postStartHook
    ELSE IF step = "ndots" THEN call.infra /\ ~call.hostNetwork
    ELSE TRUE

\* The step the call returns its error from ("none": it returns none).
failedStep(call) == IF stepTaken(call, call.fails) THEN call.fails ELSE "none"

C37_killedOnFailureMutant(step) == step \notin {"none", "options", "create", "start"}

\* The one failure after the daemon's start that runContainerInPod answers
\* with KillContainerInPod.
killedOnFailure(step) == step = "postStart"

\* What runContainerInPod leaves behind: its error, whether the daemon
\* created and started a container, whether the kill was called, and
\* whether the container runs when the call returns.
runContainerInPod(call) ==
    LET step == failedStep(call)
        created == step \notin {"options", "create"}
        started == created /\ step # "start"
        killed == started /\ killedOnFailure(step)
    IN [err |-> step,
        created |-> created,
        started |-> started,
        killCalled |-> killed,
        refSet |-> started /\ ~call.refFails,
        running |-> started /\ ~(killed /\ call.kill \in {"ok", "notRunning"})]

RunContainerInPodCall ==
    /\ conv.fn = "runContainerInPod"
    /\ ~conv.returned
    /\ conv' = [conv EXCEPT !.returned = TRUE, !.out = runContainerInPod(conv.call)]
    /\ StatusCallFrame

InitRun ==
    /\ \E call \in RunCalls :
          conv = [fn |-> "runContainerInPod", call |-> call, returned |-> FALSE,
                  out |-> runContainerInPod([call EXCEPT !.fails = "options"])]
    /\ rc = NoCache
    /\ kc = NoKill
    /\ firstCall = NoCall
    /\ entry = "runContainerInPod"
    /\ pod = [restartPolicy |-> "Always", hostNetwork |-> FALSE,
              containers |-> <<Container("c1", 0)>>]
    /\ pc = "runContainerInPod"
    /\ podKnown = TRUE
    /\ podStatus = <<>>
    /\ liveness = EmptyMap
    /\ infraInspect = "other"
    /\ plan = NoPlan
    /\ running = {}
    /\ nextId = 1
    /\ log = <<>>
    /\ result = <<>>
    /\ reasonCache = EmptyMap
    /\ tasks = EmptyMap
    /\ containerResults = <<>>
    /\ networkContainer = 0
    /\ killQueue = <<>>
    /\ toStartLeft = {}
    /\ podInfraContainerID = 0
    /\ faults = 0

NextRun == RunContainerInPodCall

SpecRun == InitRun /\ [][NextRun]_vars

RunReturnedError ==
    conv.fn = "runContainerInPod" /\ conv.returned /\ conv.out.err # "none"

\* C37 as stated: whenever runContainerInPod returns an error, no container
\* created by the call is left running, whether the failure came before the
\* daemon's start or after it (post-start hook, inspect, init PID 0, cgroup
\* name or OOM score, ndots).
C37_NothingRunsAfterError == RunReturnedError => ~conv.out.running

\* C37: whenever runContainerInPod returns an error from a failure before
\* the daemon's start, no container created by the call is left running;
\* after a post-start hook error the container is killed and runs on only
\* if that kill fails; after an inspect error, an init PID 0, a cgroup-name
\* or OOM-score error or an ndots error the started container is left
\* running.
C37_RunsOnButForHookKill ==
    RunReturnedError =>
        IF conv.out.err \in {"options", "create", "start"}
        THEN ~conv.out.running /\ ~conv.out.started
        ELSE IF conv.out.err = "postStart"
        THEN /\ conv.out.killCalled
             /\ conv.out.running <=> conv.call.kill = "stopErr"
        ELSE conv.out.running /\ ~conv.out.killCalled

\* The post-start hook failed and the container was killed.
C37_Witness ==
    /\ RunReturnedError
    /\ conv.out.err = "postStart"
    /\ conv.out.killCalled
    /\ ~conv.out.running

\* The init PID was 0: the error is returned and the container runs on.
C37_WitnessLeftRunning ==
    /\ RunReturnedError
    /\ conv.out.err = "pid"
    /\ conv.out.running

(***************************************************************************)
(* What a result without error of killPodWithSyncResult stands for.        *)
(***************************************************************************)

\* killPodWithSyncResult has returned and its result holds no error.
KillPodReturnedClean ==
    \/ entry = "KillPod" /\ pc = "done" /\ ~HasError(result)
    \/ /\ entry = "SyncPod" /\ KillPodCalled
       /\ pc \notin {"killPod", "teardown", "killInfra"}
       /\ ~KillPodFailed

\* killPodWithSyncResult had the daemon stop the container with that id.
StopIssued(id) ==
    \E k \in LogIndices :
        log[k].op = "StopCall" /\ log[k].by = "killPod" /\ log[k].id = id

\* C38: if killPodWithSyncResult returns a result with no error, a daemon
\* Stop was issued for every container of runningPod, workload containers
\* and every container named as the infra container alike: whatever keeps a
\* container from being stopped, a failed inspect of the infra container
\* included, is an error of the result.
C38_NoErrorMeansAllStopped ==
    KillPodReturnedClean => \A id \in RunningIds(podStatus) : StopIssued(id)

\* What a result without error does stand for: the Stop of every workload
\* container.
C38_NoErrorMeansWorkloadsStopped ==
    KillPodReturnedClean =>
        \A id \in RunningIds(podStatus) :
            StatusById(id).name # PodInfraContainerName => StopIssued(id)

\* The only running container is one infra container; its inspect failed,
\* no Stop was issued and the result holds no error.
C38_WitnessSilentInspect ==
    /\ KillPodReturnedClean
    /\ Cardinality(RunningIds(podStatus)) = 1
    /\ networkContainer # 0
    /\ ~StopIssued(networkContainer)
    /\ networkContainer \in running

(***************************************************************************)
(* SpecKillPod: KillPod alone, on every runningPod of the bounds. Each     *)
(* goroutine that can take a step is scheduled and each daemon call        *)
(* returns, which is what the fairness condition says.                     *)
(***************************************************************************)
InitKillPod == Init /\ entry = "KillPod"

NextKillPod ==
    \/ \E id \in DOMAIN tasks : KillTaskInfra(id) \/ KillTaskCall(id) \/ KillTaskReturn(id)
    \/ KillPodJoin
    \/ TearDownPod
    \/ KillInfra

SpecKillPod == InitKillPod /\ [][NextKillPod]_vars /\ WF_vars(NextKillPod)

\* The goroutines that have not finished yet.
PendingTasks == {id \in DOMAIN tasks : tasks[id] # "done"}

\* Every goroutine that may still send finds room in the channel.
SendersFindRoom ==
    pc = "killPod" =>
        Len(containerResults) + Cardinality(PendingTasks) <= resultCapacity(tasks)

\* wg.Wait returns, and the channel is closed and drained, only after the
\* last goroutine has finished.
ClosedAfterLastTask ==
    [][(pc = "killPod" /\ pc' # "killPod") => allTasksDone(tasks)]_vars

\* C39: killPodWithSyncResult is deadlock-free for any runningPod (empty,
\* with or without an infra container): no kill task ever blocks on sending
\* its result, because the results sent never exceed the capacity of the
\* result channel; the channel is closed only after every task has finished;
\* and the function returns once every per-container daemon call has
\* returned.
C39_KillPodNeverBlocks ==
    /\ [](SendersFindRoom /\ (pc = "killPod" /\ PendingTasks # {} => ENABLED NextKillPod))
    /\ ClosedAfterLastTask
    /\ (pc = "killPod" ~> pc = "done")

\* KillPod has returned for a runningPod of two workload containers and an
\* infra container: two results went through the channel, the infra
\* container was only remembered.
C39_Witness ==
    /\ entry = "KillPod" /\ pc = "done"
    /\ Cardinality(DOMAIN tasks) >= 3
    /\ networkContainer # 0
    /\ Cardinality({i \in ResultIndices : result[i].action = "KillContainer"
                                          /\ result[i].target # PodInfraContainerName}) >= 2

\* KillPod has returned for an empty runningPod.
C39_WitnessEmpty ==
    /\ entry = "KillPod" /\ pc = "done"
    /\ DOMAIN tasks = {}
    /\ result = <<>>

(***************************************************************************)
(* The shape of what ConvertPodStatusToAPIPodStatus returns.               *)
(***************************************************************************)
SpecNames == {pod.containers[i].name : i \in 1..Len(pod.containers)}

ConvertedIndices == 1..Len(conv.apiPodStatus)

\* One status for each container of the pod spec and for nothing else.
OneStatusPerSpecContainer ==
    /\ {conv.apiPodStatus[i].name : i \in ConvertedIndices} = SpecNames
    /\ Len(conv.apiPodStatus) = Cardinality(SpecNames)

\* One of Waiting, Running, Terminated is set in the state.
OneStateSet(state) == state.kind \in {"Waiting", "Running", "Terminated"}

\* The container has no record and the cache holds a reason for it that is
\* neither an image failure nor a run failure.
MissingWithOtherReason(name) ==
    /\ name \notin RecordedNames
    /\ reasonCache[name].found
    /\ reasonCache[name].reason \notin ImagePullReasons \cup {"RunContainerError"}

\* C40: ConvertPodStatusToAPIPodStatus returns exactly one container status
\* for each container of the pod spec (none for the infra container or for
\* names not in the spec), and each returned status has exactly one of
\* Waiting, Running, Terminated set, for every combination of observed
\* records and ReasonCache contents, a cached reason other than an image or
\* run failure with no container record included.
C40_OneStatusEachOneStateSet ==
    Converted =>
        /\ OneStatusPerSpecContainer
        /\ \A i \in ConvertedIndices : OneStateSet(conv.apiPodStatus[i].state)

\* What holds: one status per container of the spec, with one state set but
\* for the containers without record whose cached reason is another one.
C40_OneStateSetButForOtherReason ==
    Converted =>
        /\ OneStatusPerSpecContainer
        /\ \A i \in ConvertedIndices :
              \/ OneStateSet(conv.apiPodStatus[i].state)
              \/ MissingWithOtherReason(conv.apiPodStatus[i].name)

\* A container that was refused as running as root and has no record comes
\* back with none of Waiting, Running, Terminated set.
C40_WitnessNoState ==
    /\ Converted
    /\ "c1" \in SpecNames
    /\ MissingWithOtherReason("c1")
    /\ reasonCache["c1"].reason = "VerifyNonRootError"
    /\ ConvertedStatus("c1").state = NoState

\* Records of the infra container and of a name outside the spec are left
\* out, and the container of the spec without record is being created.
C40_WitnessCreating ==
    /\ Converted
    /\ SpecNames = {"c1"}
    /\ \E i \in 1..Len(podStatus) : podStatus[i].name = PodInfraContainerName
    /\ \E i \in 1..Len(podStatus) : podStatus[i].name = "c2"
    /\ Len(conv.apiPodStatus) = 1
    /\ ConvertedStatus("c1").state.reason = "ContainerCreating"

====
